---- MODULE Spec2Model ----
(***************************************************************************)
(* LinguaHome request pipeline: AgentLoop.process / process_async,         *)
(* CodeExecutor (validate_code, execute, extract_code_from_response),      *)
(* MemoryStore and the mock sensor module.                                 *)
(*                                                                         *)
(* Python strings are TLA+ strings; find, split, strip, the in test and  *)
(* slicing are computed character by character as Python computes them.    *)
(***************************************************************************)
EXTENDS Integers, Sequences, FiniteSets, TLC

(***************************************************************************)
(* Bounds of the model.                                                    *)
(***************************************************************************)
\* lines of code handed to execute() in the executor specification
MaxCodeLen == 2
\* execute() calls in one run of the executor specification
MaxExecCalls == 2
\* process() cycles in one run of the pipeline specification
MaxCycles == 1
\* tokens of a model reply in the extraction specification
MaxRespLen == 6
\* process() calls beyond the window in the window specification
ExtraCalls == 6
\* how far (in tenths of a degree) the mock base data may drift
MaxDrift == 10
\* calendar days after the first one
MaxDay == 1
\* the timeout budget the executors of the model are constructed with, in seconds
CodeTimeout == 2
\* chat() calls made on one gateway in the gateway specification
MaxChats == 2
\* calls that write to a memory file in the memory specification
MaxWrites == 3

\* webhook calls one worker thread serves
MaxCalls == 1

(***************************************************************************)
(* Python str operations.                                                  *)
(***************************************************************************)
Min(a, b) == IF a < b THEN a ELSE b

Max(a, b) == IF a > b THEN a ELSE b

\* s[a:b] with 0 <= a, 0 <= b (Python clamps to len(s))
Slice(s, a, b) == SubSeq(s, a + 1, Min(b, Len(s)))

\* s[:n]
Prefix(s, n) == Slice(s, 0, n)

\* s.startswith(p) at offset i (0-based)
MatchAt(s, p, i) == i + Len(p) <= Len(s) /\ SubSeq(s, i + 1, i + Len(p)) = p

\* s.find(p, start): lowest 0-based index >= start where p occurs, else -1
find(s, p, start) ==
    LET hits == {i \in start..(Len(s) - Len(p)) : MatchAt(s, p, i)}
    IN  IF hits = {} THEN -1
        ELSE CHOOSE i \in hits : \A j \in hits : i <= j

\* p in s
In(p, s) == \E i \in 0..(Len(s) - Len(p)) : MatchAt(s, p, i)

Whitespace == {" ", "\n", "\t"}

RECURSIVE lstrip(_)
lstrip(s) ==
    IF Len(s) > 0 /\ SubSeq(s, 1, 1) \in Whitespace
    THEN lstrip(SubSeq(s, 2, Len(s)))
    ELSE s

RECURSIVE rstrip(_)
rstrip(s) ==
    IF Len(s) > 0 /\ SubSeq(s, Len(s), Len(s)) \in Whitespace
    THEN rstrip(SubSeq(s, 1, Len(s) - 1))
    ELSE s

\* s.strip()
strip(s) == rstrip(lstrip(s))

\* s.split(sep): the sequence of parts around every occurrence of sep
RECURSIVE split(_, _)
split(s, sep) ==
    LET i == find(s, sep, 0)
    IN  IF i < 0 THEN <<s>>
        ELSE <<Slice(s, 0, i)>> \o split(Slice(s, i + Len(sep), Len(s)), sep)

\* sep.join(parts)
RECURSIVE join(_, _)
join(sep, parts) ==
    IF Len(parts) = 0 THEN ""
    ELSE IF Len(parts) = 1 THEN parts[1]
    ELSE parts[1] \o sep \o join(sep, Tail(parts))

\* all sequences over S of length 0..n
RECURSIVE SeqsUpTo(_, _)
SeqsUpTo(S, n) ==
    IF n = 0 THEN {<<>>}
    ELSE LET shorter == SeqsUpTo(S, n - 1)
         IN  shorter \cup {Append(q, e) : q \in {r \in shorter : Len(r) = n - 1}, e \in S}

(***************************************************************************)
(* CodeExecutor.extract_code_from_response                                 *)
(***************************************************************************)
\* the backquote cannot be written in a TLA+ string: "~" stands for it throughout
FENCE == "~~~"

PYFENCE == "~~~python"

\* None: the Optional[str] result when nothing was found
None == [none |-> TRUE]

Some(s) == [none |-> FALSE, val |-> s]

IsNone(o) == o.none

\* a variant of the test below that tells only None apart (`if code is not None:`)
Truthy_not_none(o) == ~o.none

\* `if code:` -- None and "" are falsy
Truthy(o) == ~o.none /\ o.val # ""

extract_python_block(llm_response) ==
    LET start == find(llm_response, PYFENCE, 0) + Len(PYFENCE)
        end   == find(llm_response, FENCE, start)
    IN  IF In(PYFENCE, llm_response) /\ end > start
        THEN Some(strip(Slice(llm_response, start, end)))
        ELSE None

extract_generic_block(llm_response) ==
    LET parts == split(llm_response, FENCE)
    IN  IF In(FENCE, llm_response) /\ Len(parts) >= 3
        THEN Some(strip(parts[2]))
        ELSE None

extract_code_from_response(llm_response) ==
    IF ~IsNone(extract_python_block(llm_response))
    THEN extract_python_block(llm_response)
    ELSE extract_generic_block(llm_response)

(***************************************************************************)
(* Generated code.  A code text is a string of statements separated by     *)
(* line breaks; the statements below are the ones the model runs, each     *)
(* with the effect Python gives it inside the restricted namespace.        *)
(***************************************************************************)
S_PRINT == "print('a')"

S_BIND == "x = 1"

S_USE == "print(x)"

S_DIV == "1/0"

S_SPIN == "while True: pass"

\* a loop whose body is wrapped in a bare except, as "handle potential errors" asks
S_GUARD == "try:\n while True:\n  pass\nexcept:\n pass"

S_OS == "import os"

\* two deny-listed substrings in one statement, the later one of the list first
S_EVAL == "getattr(eval(s), n)"

S_BAD == "print("

S_SENSOR == "print(Sensors().getSensor(1078)['value'])"

S_ACT == "ZWaveHomeActuator().setValue(35, 'turnOn', 1)"

S_JSON == "import json"

S_NAME == "python"

\* a fault raised several frames deep inside the json module
S_LOADS == "json.loads('{')"

CodeLines ==
    {S_PRINT, S_BIND, S_USE, S_DIV, S_SPIN, S_GUARD, S_OS, S_EVAL, S_BAD,
     S_SENSOR, S_ACT, S_JSON, S_NAME, S_LOADS}

\* what Python does with one statement
Kind(stmt) ==
    CASE stmt = S_PRINT  -> "print"
      [] stmt = S_BIND   -> "bind"
      [] stmt = S_USE    -> "use"
      [] stmt = S_DIV    -> "div"
      [] stmt = S_SPIN   -> "spin"
      [] stmt = S_GUARD  -> "guard"
      [] stmt = S_OS     -> "import"
      [] stmt = S_JSON   -> "import"
      [] stmt = S_EVAL   -> "call_eval"
      [] stmt = S_SENSOR -> "sensor"
      [] stmt = S_ACT    -> "act"
      [] stmt = S_NAME   -> "name"
      [] stmt = S_LOADS  -> "loads"
      [] stmt \in {"a", "b"} -> "name"
      [] OTHER           -> "invalid"

\* a physical line that continues the statement before it
Continues(line) == MatchAt(line, " ", 0) \/ MatchAt(line, "except", 0)

RECURSIVE Group(_, _)
Group(lines, acc) ==
    IF Len(lines) = 0 THEN acc
    ELSE IF Len(acc) > 0 /\ Continues(lines[1])
         THEN Group(Tail(lines),
                    [acc EXCEPT ![Len(acc)] = acc[Len(acc)] \o "\n" \o lines[1]])
         ELSE IF strip(lines[1]) = ""
              THEN Group(Tail(lines), acc)
              ELSE Group(Tail(lines), Append(acc, lines[1]))

\* the statements of a code text, in order
Statements(code) == Group(split(code, "\n"), <<>>)

\* a variant of the test below that looks at the first statement only
SyntaxInvalid_first_statement(code) ==
    LET stmts == Statements(code)
    IN  Len(stmts) > 0 /\ Kind(stmts[1]) = "invalid"

\* compile(code, "<generated>", "exec") raises SyntaxError
SyntaxInvalid(code) ==
    LET stmts == Statements(code)
    IN  \E i \in 1..Len(stmts) : Kind(stmts[i]) = "invalid"

\* the physical line on which statement k of a code text starts
RECURSIVE LineOf(_, _)
LineOf(stmts, k) ==
    IF k = 1 THEN 1 ELSE LineOf(stmts, k - 1) + Len(split(stmts[k - 1], "\n"))

\* str(e) of the SyntaxError compile() raises: the call left open is reported on
\* its own line, unless a keyword statement follows it and another open call
\* comes later, which the parser reports as invalid syntax at the keyword
SyntaxErrorText(code) ==
    LET stmts   == Statements(code)
        invalid == {i \in 1..Len(stmts) : Kind(stmts[i]) = "invalid"}
        k       == CHOOSE i \in invalid : \A j \in invalid : i <= j
    IN  IF /\ k < Len(stmts)
           /\ Kind(stmts[k + 1]) \in {"spin", "guard", "import"}
           /\ \E j \in invalid : j > k + 1
        THEN "invalid syntax (<generated>, line " \o ToString(LineOf(stmts, k + 1)) \o ")"
        ELSE "'(' was never closed (<generated>, line " \o ToString(LineOf(stmts, k)) \o ")"

(***************************************************************************)
(* CodeExecutor.validate_code                                              *)
(***************************************************************************)
\* the set the module declares; no code of the module reads it
ALLOWED_MODULES ==
    { "rh_sensors", "rh_sensors.db", "rh_sensors.db.access", "rh_sensors.db.resolver",
      "rh_sensors.homecentre_actuators", "rh_sensors.homecentre_sensors",
      "datetime", "time", "json", "math", "statistics", "collections", "functools",
      "itertools" }

FORBIDDEN_PATTERNS ==
    << "import os", "import subprocess", "import shutil", "import socket",
       "import urllib", "import requests", "__import__", "exec(", "eval(",
       "open(", "file(", "compile(", "globals(", "locals(", "vars(",
       "delattr(", "setattr(", "getattr(" >>

\* a variant of the scan below that starts at the second entry of the list
FirstForbidden_from_second(code) ==
    LET hits == {i \in 2..Len(FORBIDDEN_PATTERNS) : In(FORBIDDEN_PATTERNS[i], code)}
    IN  IF hits = {} THEN 0
        ELSE CHOOSE i \in hits : \A j \in hits : i <= j

\* the first pattern of the list, in list order, that occurs in code (0: none)
FirstForbidden(code) ==
    LET hits == {i \in 1..Len(FORBIDDEN_PATTERNS) : In(FORBIDDEN_PATTERNS[i], code)}
    IN  IF hits = {} THEN 0
        ELSE CHOOSE i \in hits : \A j \in hits : i <= j

\* a variant of the validation below that only parses the code
validate_code_syntax_only(safe, code) ==
    IF ~safe THEN [is_safe |-> TRUE, error |-> ""]
    ELSE IF SyntaxInvalid(code)
    THEN [is_safe |-> FALSE, error |-> "Syntax error: " \o SyntaxErrorText(code)]
    ELSE [is_safe |-> TRUE, error |-> ""]

\* (is_safe, error_message)
validate_code(safe, code) ==
    IF ~safe THEN [is_safe |-> TRUE, error |-> ""]
    ELSE LET first == FirstForbidden(code) IN
         IF first # 0
         THEN [is_safe |-> FALSE,
               error |-> "Forbidden pattern detected: " \o FORBIDDEN_PATTERNS[first]]
         ELSE IF SyntaxInvalid(code)
         THEN [is_safe |-> FALSE, error |-> "Syntax error: " \o SyntaxErrorText(code)]
         ELSE [is_safe |-> TRUE, error |-> ""]

(***************************************************************************)
(* State.                                                                  *)
(***************************************************************************)
VARIABLES
    \* CodeExecutor and its platform
    safe_mode,          \* CodeExecutor.safe_mode
    hasSIGALRM,         \* hasattr(signal, 'SIGALRM')
    environ,            \* os.environ: credential variable -> its value, None if unset
    llm,                \* the LLMProvider of the loop, or how its construction ended
    MOCK_SENSORS,       \* mock_sensors.MOCK_SENSORS: temperature sensor id -> value, in tenths
    ex_pc,              \* "idle", "running" (inside exec), "returned"
    ex_code,            \* the argument of the current or last execute()
    ex_stmts,           \* statements of the code still to run
    in_loop,            \* the first of them is a loop that has been entered
    namespace,          \* names the code bound in the namespace of this call
    stdout_capture,     \* the StringIO that receives the code's output
    sys_stdout,         \* the stream sys.stdout names: "__stdout__" or "stdout_capture"
    terminal,           \* the text written to the stream the process started with
    alarm,              \* seconds until the pending SIGALRM, 0: none pending
    exec_result,        \* (success, stdout, stderr) returned by the last execute()
    ran,                \* statements of the code started in this call
    issued,             \* actuator commands issued in this call
    fired,              \* the alarm went off during this call
    ex_fault,           \* detail of the fault the code raised in this call, "" if none
    calls,              \* execute() calls so far
    bound_before,       \* names bound by the code of earlier calls
    \* AgentLoop
    pc,                 \* position of the request cycle
    mode,               \* "sync": process, "async": process_async
    user_message,
    conversation_history,
    messages,           \* the message list built for the model in this cycle
    llm_response,       \* content of the model's reply
    code,               \* result of extract_code_from_response
    response,           \* AgentResponse returned by the last cycle
    raised,             \* text of the exception the last cycle raised to its caller, "" if none
    fault,              \* faults raised during this cycle, in order
    exec_calls,         \* execute() calls made by this cycle
    llm_calls,          \* model calls made by this cycle
    cycles,             \* process()/process_async() calls so far
    \* MemoryStore
    today,              \* the current calendar day
    daily,              \* day -> memory/<date>.md
    memory_file,        \* memory/MEMORY.md
    written,            \* what this process handed to the memory files: name and content
    \* WhatsAppBot
    agents,             \* the AgentLoop instances constructed so far; the first is the bot's own
    user_agents,        \* WhatsAppBot._user_agents: phone number -> its AgentLoop (index in agents)
    webhooks,           \* worker thread -> the webhook() call it is serving
    adapter,            \* the channel the bot serves: "whatsapp" or "telegram"
    allowed             \* allowed_numbers / allowed_users of the bot

exec_vars ==
    << MOCK_SENSORS, ex_pc, ex_code, ex_stmts, in_loop, namespace, stdout_capture,
       sys_stdout, terminal, alarm, exec_result, ran, issued, fired, ex_fault, calls, bound_before >>

chan_vars == << agents, user_agents, webhooks, adapter, allowed >>

env_vars == << safe_mode, hasSIGALRM, environ, llm, chan_vars >>

loop_vars ==
    << pc, mode, user_message, conversation_history, messages, llm_response, code,
       response, raised, fault, exec_calls, llm_calls, cycles >>

mem_vars == << today, daily, memory_file, written >>

vars == << exec_vars, env_vars, loop_vars, mem_vars >>

(***************************************************************************)
(* mock_sensors                                                            *)
(***************************************************************************)
\* the temperature sensor the requests of the model read (all five are treated alike)
TempSensors == {1078}

\* MOCK_SENSORS[sid]["value"] as written in the module, in tenths of a degree
MockBase == [sid \in TempSensors |-> 239]

\* random.uniform(-0.5, 0.5), in tenths: both ends and the middle
Variations == {-5, 0, 5}

\* f"{v:.1f}" of a positive value given in tenths
Fmt1f(t) == ToString(t \div 10) \o "." \o ToString(t % 10)

\* MockSensors.__init__: dict(MOCK_SENSORS) copies the outer dict only, so the
\* assignment to self._sensors[sid]['value'] writes the module's own records
MockSensors_init(data, variation) ==
    [sid \in TempSensors |-> data[sid] + variation[sid]]

\* a variant of the read below that reports the value as written in the module
getSensor_value_base(data, sensor_id) == Fmt1f(MockBase[sensor_id])

\* MockSensors.getSensor(sensor_id)['value'] of a freshly constructed object
getSensor_value(data, sensor_id) == Fmt1f(data[sensor_id])

PLUG_STATES == [d \in {25, 35, 37, 39, 41} |-> d \in {25, 37, 41}]

\* MockZWaveHomeActuator.setValue on a fresh object: the success field of its result
setValue_success(device_id, action) ==
    device_id \in DOMAIN PLUG_STATES /\ action \in {"turnOn", "turnOff"}

(***************************************************************************)
(* CodeExecutor.execute                                                    *)
(***************************************************************************)
\* self.timeout (30 by default; the model constructs its executors with a short budget)
timeout == CodeTimeout

TracebackHead ==
    "Traceback (most recent call last):\n"
    \o "  File \"linguaHome/agent/code_executor.py\", line 207, in execute\n"
    \o "    exec(code, namespace)\n"
    \o "  File \"<string>\", line 1, in <module>\n"

\* the frames json.loads adds below the generated code's frame
JsonFrames ==
    "  File \"/usr/lib/python3.11/json/__init__.py\", line 346, in loads\n"
    \o "    return _default_decoder.decode(s)\n"
    \o "           ^^^^^^^^^^^^^^^^^^^^^^^^^^\n"
    \o "  File \"/usr/lib/python3.11/json/decoder.py\", line 337, in decode\n"
    \o "    obj, end = self.raw_decode(s, idx=_w(s, 0).end())\n"
    \o "               ^^^^^^^^^^^^^^^^^^^^^^^^^^^^^^^^^^^^^^\n"
    \o "  File \"/usr/lib/python3.11/json/decoder.py\", line 353, in raw_decode\n"
    \o "    obj, end = self.scan_once(s, idx)\n"
    \o "               ^^^^^^^^^^^^^^^^^^^^^^\n"

E_NAME_X == "NameError: name 'x' is not defined"

E_NAME_PY == "NameError: name 'python' is not defined"

E_NAME_EVAL == "NameError: name 'getattr' is not defined"

E_DIV == "ZeroDivisionError: division by zero"

E_IMPORT == "ImportError: __import__ not found"

E_JSON ==
    "json.decoder.JSONDecodeError: Expecting property name enclosed in double quotes: line 1 column 2 (char 1)"

E_SYNTAX(c) == "SyntaxError: " \o SyntaxErrorText(c)

\* traceback.format_exc() for a fault with this detail
format_exc(detail) ==
    TracebackHead \o (IF detail = E_JSON THEN JsonFrames ELSE "") \o detail \o "\n"

\* line 190
ValidationFailure(error) ==
    [success |-> FALSE, stdout |-> "", stderr |-> "Code validation failed: " \o error]

\* lines 213-216
SuccessResult(out) == [success |-> TRUE, stdout |-> out, stderr |-> ""]

\* lines 218-219
TimeoutResult(out) ==
    [success |-> FALSE, stdout |-> "",
     stderr |-> "Execution timed out after " \o ToString(timeout) \o " seconds"]

\* a variant of the branch below that returns no output, as the timeout branch does
ExceptionResult_no_stdout(out, detail) ==
    [success |-> FALSE, stdout |-> "", stderr |-> format_exc(detail)]

\* lines 220-224
ExceptionResult(out, detail) ==
    [success |-> FALSE, stdout |-> out, stderr |-> format_exc(detail)]

\* a variant of the clearing below that leaves the alarm as it is
ClearAlarm_skipped(a) == a

\* signal.alarm(0) in the branches that clear it
ClearAlarm(a) == IF hasSIGALRM THEN 0 ELSE a

\* _setup_namespace(): a new dict on every call; no name of the code is in it
setup_namespace == {}

\* a variant of the context manager below that leaves sys.stdout as it is
redirect_stdout_not_installed(new_target) == "__stdout__"

\* redirect_stdout(new_target).__enter__: the stream sys.stdout names inside the with
redirect_stdout(new_target) == new_target

\* redirect_stdout.__exit__: the stream saved on entry; execute() is entered from
\* outside any with block, so that is the stream the process started with
restore_stdout == "__stdout__"

\* execute(code) up to the point where exec() starts the first statement
execute_begin(c) ==
    /\ ex_code' = c
    /\ calls' = calls + 1
    /\ ran' = <<>>
    /\ issued' = <<>>
    /\ fired' = FALSE
    /\ in_loop' = FALSE
    /\ UNCHANGED << MOCK_SENSORS, bound_before, terminal >>
    /\ LET checked == validate_code(safe_mode, c) IN
       IF ~checked.is_safe
       THEN /\ exec_result' = ValidationFailure(checked.error)
            /\ ex_pc' = "returned"
            /\ ex_fault' = ""
            /\ ex_stmts' = <<>>
            /\ namespace' = {}
            /\ stdout_capture' = ""
            /\ UNCHANGED << alarm, sys_stdout >>
       ELSE /\ namespace' = setup_namespace
            /\ stdout_capture' = ""
            /\ IF SyntaxInvalid(c)
               THEN \* exec() compiles first: SyntaxError before any statement
                    /\ exec_result' = ExceptionResult("", E_SYNTAX(c))
                    /\ ex_fault' = E_SYNTAX(c)
                    /\ alarm' = ClearAlarm(alarm)
                    /\ ex_pc' = "returned"
                    /\ ex_stmts' = <<>>
                    /\ sys_stdout' = restore_stdout
               ELSE /\ ex_stmts' = Statements(c)
                    /\ sys_stdout' = redirect_stdout("stdout_capture")
                    /\ alarm' = IF hasSIGALRM THEN timeout ELSE alarm
                    /\ ex_pc' = "running"
                    /\ ex_fault' = ""
                    /\ exec_result' = SuccessResult("")

\* the caller has taken the returned tuple: the frame of execute() is gone, and what
\* the module-level objects and the process keep is all that is left of the call
drop_frame ==
    /\ ex_pc' = "idle"
    /\ bound_before' = bound_before \cup namespace
    /\ ex_code' = ""
    /\ ex_stmts' = <<>>
    /\ in_loop' = FALSE
    /\ namespace' = {}
    /\ stdout_capture' = ""
    /\ exec_result' = SuccessResult("")
    /\ ran' = <<>>
    /\ issued' = <<>>
    /\ fired' = FALSE
    /\ ex_fault' = ""
    /\ UNCHANGED << MOCK_SENSORS, alarm, calls, sys_stdout, terminal >>

\* the names of the restricted __builtins__ dict
SAFE_BUILTINS ==
    { "print", "len", "range", "str", "int", "float", "bool", "list", "dict", "tuple",
      "set", "sum", "min", "max", "abs", "round", "sorted", "enumerate", "zip", "map",
      "filter", "any", "all", "isinstance", "type", "True", "False", "None" }

\* the three capability classes (the mock ones: rh_sensors is not installed)
Capabilities == {"Sensors", "ZWaveHomeActuator", "ZWaveHomeSensor"}

\* the keys of the dict _setup_namespace returns
NamespaceKeys == {"__builtins__"} \cup Capabilities \cup {"datetime", "timedelta", "json"}

\* a name the code reads is found: in its globals (the namespace), else in __builtins__
Resolves(name, names) == name \in names \cup NamespaceKeys \cup SAFE_BUILTINS

E_NAME_JSON == "NameError: name 'json' is not defined"

\* the fault a statement raises, "" if it completes
FaultOf(stmt, names) ==
    CASE Kind(stmt) = "use" /\ ~Resolves("x", names) -> E_NAME_X
      [] Kind(stmt) = "div"       -> E_DIV
      [] Kind(stmt) = "import"    -> E_IMPORT
      [] Kind(stmt) = "call_eval" /\ ~Resolves("getattr", names) -> E_NAME_EVAL
      [] Kind(stmt) = "name" /\ ~Resolves("python", names) -> E_NAME_PY
      [] Kind(stmt) = "loads"     -> IF Resolves("json", names) THEN E_JSON ELSE E_NAME_JSON
      [] OTHER -> ""

\* the text a statement prints when it completes
OutputOf(stmt, data) ==
    CASE Kind(stmt) = "print"  -> "a\n"
      [] Kind(stmt) = "use"    -> "1\n"
      [] Kind(stmt) = "sensor" -> getSensor_value(data, 1078) \o "\n"
      [] OTHER -> ""

IsLoop(stmt) == Kind(stmt) \in {"spin", "guard"}

\* one statement of the code runs inside exec(code, namespace)
exec_step ==
    /\ ex_pc = "running"
    /\ ex_stmts # <<>>
    /\ ~in_loop
    /\ LET stmt == Head(ex_stmts) IN
       /\ ran' = Append(ran, stmt)
       /\ IF IsLoop(stmt)
          THEN /\ in_loop' = TRUE
               /\ UNCHANGED << MOCK_SENSORS, ex_pc, ex_stmts, namespace, stdout_capture,
                               sys_stdout, terminal, alarm, exec_result, issued, ex_fault >>
          ELSE /\ UNCHANGED in_loop
               /\ IF Kind(stmt) = "sensor"
                  THEN \E v \in [TempSensors -> Variations] :
                         /\ \A sid \in TempSensors :
                              /\ MOCK_SENSORS[sid] + v[sid] <= MockBase[sid] + MaxDrift
                              /\ MOCK_SENSORS[sid] + v[sid] >= MockBase[sid] - MaxDrift
                         /\ MOCK_SENSORS' = MockSensors_init(MOCK_SENSORS, v)
                  ELSE UNCHANGED MOCK_SENSORS
               /\ issued' = IF Kind(stmt) = "act"
                            THEN Append(issued, <<35, "turnOn", setValue_success(35, "turnOn")>>)
                            ELSE issued
               /\ namespace' = IF Kind(stmt) = "bind" THEN namespace \cup {"x"} ELSE namespace
               /\ IF FaultOf(stmt, namespace) # ""
                  THEN \* except Exception
                       /\ ex_fault' = FaultOf(stmt, namespace)
                       /\ alarm' = ClearAlarm(alarm)
                       /\ exec_result' = ExceptionResult(stdout_capture, FaultOf(stmt, namespace))
                       /\ ex_pc' = "returned"
                       /\ sys_stdout' = restore_stdout
                       /\ UNCHANGED << ex_stmts, stdout_capture, terminal >>
                  ELSE \* print writes to the stream sys.stdout names
                       /\ IF sys_stdout = "stdout_capture"
                          THEN /\ stdout_capture' =
                                      stdout_capture \o OutputOf(stmt, MOCK_SENSORS')
                               /\ UNCHANGED terminal
                          ELSE /\ terminal' = terminal \o OutputOf(stmt, MOCK_SENSORS')
                               /\ UNCHANGED stdout_capture
                       /\ ex_stmts' = Tail(ex_stmts)
                       /\ UNCHANGED << ex_pc, alarm, exec_result, ex_fault, sys_stdout >>
    /\ UNCHANGED << ex_code, fired, calls, bound_before >>

\* exec() has run the last statement: lines 209-216
exec_return ==
    /\ ex_pc = "running"
    /\ ex_stmts = <<>>
    /\ alarm' = ClearAlarm(alarm)
    /\ exec_result' = SuccessResult(stdout_capture)
    /\ ex_pc' = "returned"
    /\ sys_stdout' = restore_stdout
    /\ UNCHANGED << MOCK_SENSORS, ex_code, ex_stmts, in_loop, namespace, stdout_capture,
                    terminal, ran, issued, fired, ex_fault, calls, bound_before >>

\* a second passes while the code loops
Tick ==
    /\ ex_pc = "running"
    /\ in_loop
    /\ alarm > 1
    /\ alarm' = alarm - 1
    /\ UNCHANGED << MOCK_SENSORS, ex_pc, ex_code, ex_stmts, in_loop, namespace,
                    stdout_capture, sys_stdout, terminal, exec_result, ran, issued, fired,
                    ex_fault, calls, bound_before >>

\* the code's own handler catches what is raised in its try body
CaughtByCode(stmt) == Kind(stmt) = "guard"

\* SIGALRM is delivered: timeout_handler raises TimeoutError in the running frame
timeout_handler ==
    /\ ex_pc = "running"
    /\ in_loop
    /\ alarm = 1
    /\ alarm' = 0
    /\ fired' = TRUE
    /\ in_loop' = FALSE
    /\ IF CaughtByCode(Head(ex_stmts))
       THEN /\ ex_stmts' = Tail(ex_stmts)
            /\ UNCHANGED << ex_pc, exec_result, sys_stdout >>
       ELSE \* except TimeoutError
            /\ exec_result' = TimeoutResult(stdout_capture)
            /\ ex_pc' = "returned"
            /\ sys_stdout' = restore_stdout
            /\ UNCHANGED ex_stmts
    /\ UNCHANGED << MOCK_SENSORS, ex_code, namespace, stdout_capture, terminal, ran, issued,
                    ex_fault, calls, bound_before >>

(***************************************************************************)
(* MemoryStore                                                             *)
(***************************************************************************)
Days == 0..MaxDay

NoFile == [exists |-> FALSE, text |-> ""]

File(t) == [exists |-> TRUE, text |-> t]

\* today_date(): strftime("%Y-%m-%d")
DateStr(d) == "2026-11-0" \o ToString(d + 1)

\* strftime("%H:%M:%S")
TimeStr == "12:00:00"

\* Path.read_text(encoding="utf-8"): text mode reads "\r\n" and "\r" as "\n"
RECURSIVE read_text(_)
read_text(stored) ==
    LET i == find(stored, "\r", 0) IN
    IF i = -1 THEN stored
    ELSE LET skip == IF MatchAt(stored, "\r\n", i) THEN 2 ELSE 1
         IN  Prefix(stored, i) \o "\n" \o read_text(SubSeq(stored, i + skip + 1, Len(stored)))

\* the name of the file of day d inside memory/
FileName(d) == DateStr(d) \o ".md"

Written(name, content) == [file |-> name, content |-> content]

\* append_today(content) on day d: the new content of that day's file
\* (Path.write_text on this platform stores the characters as they are)
append_today(file, content, d) ==
    IF file.exists
    THEN File(read_text(file.text) \o "\n" \o content)
    ELSE File("# LinguaHome Log - " \o DateStr(d) \o "\n\n" \o content)

\* a variant of the entry below that leaves the command out
user_command_entry_result_only(command, result) ==
    "- [" \o TimeStr \o "] Result: " \o result

\* remember_user_command(command, result): the entry handed to append_today
user_command_entry(command, result) ==
    "- [" \o TimeStr \o "] Command: " \o command \o "\n  Result: " \o result

read_long_term(mf) == IF mf.exists THEN read_text(mf.text) ELSE ""

\* append_long_term(content): the new content of MEMORY.md
append_long_term(mf, content) ==
    LET existing == read_long_term(mf) IN
    IF existing # ""
    THEN File(existing \o "\n" \o content)
    ELSE File("# LinguaHome User Preferences\n\n" \o content)

\* remember_sensor_event(sensor_name, value, status): the entry handed to append_today
sensor_event_entry(sensor_name, value, status) ==
    "- [" \o TimeStr \o "] " \o sensor_name \o ": " \o value \o " (" \o status \o ")"

\* remember_preference(preference) on day d: the entry handed to append_long_term
preference_entry(preference, d) ==
    "- [" \o DateStr(d) \o " 12:00] " \o preference

\* a variant of the list below that puts the oldest day first
RECURSIVE recent_list_oldest_first(_, _, _)
recent_list_oldest_first(files, d, days) ==
    IF days = 0 THEN <<>>
    ELSE recent_list_oldest_first(files, d - 1, days - 1)
         \o (IF d \in DOMAIN files /\ files[d].exists
             THEN <<read_text(files[d].text)>> ELSE <<>>)

\* get_recent_memories(days) on day d: files of d, d-1, ... that exist, newest first
RECURSIVE recent_list(_, _, _)
recent_list(files, d, days) ==
    IF days = 0 THEN <<>>
    ELSE (IF d \in DOMAIN files /\ files[d].exists
          THEN <<read_text(files[d].text)>> ELSE <<>>)
         \o recent_list(files, d - 1, days - 1)

\* a variant of the function below that goes back to the latest day that has a file
get_recent_memories_latest(files, d, days) ==
    LET have == {e \in DOMAIN files : e <= d /\ files[e].exists}
    IN  IF have = {} THEN ""
        ELSE read_text(files[CHOOSE e \in have : \A f \in have : f <= e].text)

\* get_recent_memories(days) on day d
get_recent_memories(files, d, days) == join("\n\n---\n\n", recent_list(files, d, days))

get_memory_context(mf, files, d) ==
    LET long_term == read_long_term(mf)
        recent    == get_recent_memories(files, d, 1)
        parts     == (IF long_term # "" THEN <<"## User Preferences\n" \o long_term>> ELSE <<>>)
                     \o (IF recent # "" THEN <<"## Recent Activity\n" \o recent>> ELSE <<>>)
    IN  join("\n\n", parts)

(***************************************************************************)
(* LLMProvider                                                             *)
(***************************************************************************)
\* str.lower() of one character
lower_char(c) ==
    LET upper == "ABCDEFGHIJKLMNOPQRSTUVWXYZ"
        lowers == "abcdefghijklmnopqrstuvwxyz"
        at == {i \in 1..Len(upper) : SubSeq(upper, i, i) = c}
    IN  IF at = {} THEN c ELSE LET i == CHOOSE i \in at : TRUE IN SubSeq(lowers, i, i)

\* str.lower()
RECURSIVE lower(_)
lower(s) == IF s = "" THEN "" ELSE lower_char(SubSeq(s, 1, 1)) \o lower(SubSeq(s, 2, Len(s)))

\* s.startswith(p)
startswith(s, p) == MatchAt(s, p, 0)

MODEL_ALIASES ==
    << <<"gpt-4o", "gpt-4o">>, <<"gpt4o", "gpt-4o">>, <<"gpt-4o-mini", "gpt-4o-mini">>,
       <<"gpt4", "gpt-4-turbo">>,
       <<"claude", "claude-3-5-sonnet-20241022">>,
       <<"claude-sonnet", "claude-3-5-sonnet-20241022">>,
       <<"claude-haiku", "claude-3-5-haiku-20241022">>,
       <<"claude-opus", "claude-3-opus-20240229">>,
       <<"gemini", "gemini/gemini-2.0-flash">>, <<"gemini-flash", "gemini/gemini-2.0-flash">>,
       <<"gemini-pro", "gemini/gemini-1.5-pro">>, <<"gemini-2", "gemini/gemini-2.0-flash">>,
       <<"gemini-1.5", "gemini/gemini-1.5-pro">> >>

\* a variant of the lookup below that takes the name as it is written
resolve_model_case_sensitive(model) ==
    LET hits == {i \in 1..Len(MODEL_ALIASES) : MODEL_ALIASES[i][1] = model}
    IN  IF hits = {} THEN model ELSE MODEL_ALIASES[CHOOSE i \in hits : TRUE][2]

\* MODEL_ALIASES.get(model.lower(), model)
resolve_model(model) ==
    LET key  == lower(model)
        hits == {i \in 1..Len(MODEL_ALIASES) : MODEL_ALIASES[i][1] = key}
    IN  IF hits = {} THEN model ELSE MODEL_ALIASES[CHOOSE i \in hits : TRUE][2]

get_provider_from_model(model) ==
    LET model_lower == lower(model) IN
    IF startswith(model_lower, "gpt") \/ startswith(model_lower, "o1") THEN "openai"
    ELSE IF startswith(model_lower, "claude") THEN "anthropic"
    ELSE IF startswith(model_lower, "gemini") THEN "google"
    ELSE "unknown"

CredentialKeys == {"OPENAI_API_KEY", "ANTHROPIC_API_KEY", "GEMINI_API_KEY", "GOOGLE_API_KEY"}

\* _verify_api_key: the message of the ValueError it raises, "" if it returns;
\* env[key] is os.environ.get(key), and `not` holds of None and of ""
verify_api_key(provider, env) ==
    IF provider = "openai"
    THEN IF ~Truthy(env["OPENAI_API_KEY"])
         THEN "OPENAI_API_KEY environment variable not set" ELSE ""
    ELSE IF provider = "anthropic"
    THEN IF ~Truthy(env["ANTHROPIC_API_KEY"])
         THEN "ANTHROPIC_API_KEY environment variable not set" ELSE ""
    ELSE IF provider = "google"
    THEN IF ~Truthy(env["GEMINI_API_KEY"])
            /\ ~Truthy(env["GOOGLE_API_KEY"])
         THEN "GEMINI_API_KEY or GOOGLE_API_KEY environment variable not set" ELSE ""
    ELSE ""

\* no LLMProvider has been constructed yet
\* the keyword arguments of a completion request; temperatures are in tenths
NoRequest == [temperature |-> None, max_tokens |-> None]

NoProvider ==
    [state |-> "none", name |-> "", model |-> "", provider |-> "", error |-> "",
     completions |-> 0, temperature |-> 1, max_tokens |-> 4096, sent |-> NoRequest]

\* LLMProvider(model): the object, or the exception its construction raised
LLMProvider_init(model, env, litellm_installed) ==
    LET resolved == resolve_model(model)
        provider == get_provider_from_model(resolved)
        made     == [state |-> "constructed", name |-> model, model |-> resolved,
                     provider |-> provider, error |-> "", completions |-> 0,
                     temperature |-> 1, max_tokens |-> 4096, sent |-> NoRequest]
    IN  IF ~litellm_installed
        THEN [made EXCEPT !.state = "failed",
                !.error = "ImportError: litellm is required. Install with: pip install litellm"]
        ELSE IF verify_api_key(provider, env) # ""
        THEN [made EXCEPT !.state = "failed",
                          !.error = "ValueError: " \o verify_api_key(provider, env)]
        ELSE made

\* `override or default` on an Optional number: None and 0 are falsy
or_default(override, default) ==
    IF IsNone(override) \/ override.val = 0 THEN default ELSE override.val

\* chat / chat_async: one completion request goes out for the model of the object
completion(provider, temperature, max_tokens) ==
    [provider EXCEPT
        !.completions = @ + 1,
        !.sent = [temperature |-> Some(or_default(temperature, provider.temperature)),
                  max_tokens  |-> Some(or_default(max_tokens, provider.max_tokens))]]

\* the environment the default model can be constructed in
DefaultEnviron == [k \in CredentialKeys |-> IF k = "OPENAI_API_KEY" THEN Some("sk-1") ELSE None]

(***************************************************************************)
(* ContextBuilder                                                          *)
(***************************************************************************)
\* the static prompt, abbreviated to its title line
SYSTEM_PROMPT == "# LinguaHome Smart Home Assistant"

build_system_prompt(mf, files, d) ==
    LET memory_context == get_memory_context(mf, files, d)
    IN  join("\n", <<SYSTEM_PROMPT>>
                   \o (IF memory_context # ""
                       THEN <<"\n\n## Context from Previous Sessions\n", memory_context>>
                       ELSE <<>>))

build_user_prompt(text) ==
    "User request: " \o text
    \o "\n\nGenerate Python code to handle this request. Remember to:\n"
    \o "1. Use the correct sensor/device IDs from the mapping\n"
    \o "2. Use print() for all output\n"
    \o "3. Handle potential errors\n"
    \o "4. Format output nicely with emojis"

(***************************************************************************)
(* AgentLoop                                                               *)
(***************************************************************************)
max_history == 10

Message(role, content) == [role |-> role, content |-> content]

\* a variant of the reset below that also wipes the daily files
reset_conversation_and_memory ==
    /\ pc = "Idle"
    /\ conversation_history' = <<>>
    /\ daily' = [d \in DOMAIN daily |-> [exists |-> FALSE, text |-> ""]]
    /\ UNCHANGED << pc, mode, user_message, messages, llm_response, code, response, raised,
                    fault, exec_calls, llm_calls, cycles >>
    /\ UNCHANGED << exec_vars, env_vars, today, memory_file, written >>

\* a variant of the slice below that takes the whole list
LastN_all(seq, n) == seq

\* seq[-n:]
LastN(seq, n) == SubSeq(seq, Max(1, Len(seq) - n + 1), Len(seq))

\* a variant of the list below that takes the oldest entries of the history
build_messages_oldest(history, text, mf, files, d) ==
    << Message("system", build_system_prompt(mf, files, d)) >>
    \o SubSeq(history, 1, Min(max_history, Len(history)))
    \o << Message("user", build_user_prompt(text)) >>

\* _build_messages, lines 185-194: the list handed to the model
build_messages(history, text, mf, files, d) ==
    << Message("system", build_system_prompt(mf, files, d)) >>
    \o LastN(history, max_history)
    \o << Message("user", build_user_prompt(text)) >>

\* a variant of the entry below that keeps the prompt built for the model
history_entry_prompt(text) == Message("user", build_user_prompt(text))

\* line 197: what a request leaves in the conversation history
history_entry(text) == Message("user", text)

\* the two marks that open the pipeline's own messages (emoji in the source)
CROSS == "[x]"

CHECK == "[ok]"

AgentResponse(message, code_generated, code_executed, success) ==
    [message |-> message, code_generated |-> code_generated,
     code_executed |-> code_executed, success |-> success]

\* no response has been returned yet
NoResponse == AgentResponse("", None, FALSE, TRUE)

NoFault == [kind |-> "", text |-> "", where |-> ""]

Fault(kind, text, where) == [kind |-> kind, text |-> text, where |-> where]

OSErrorText == "[Errno 13] Permission denied: 'memory'"

ProviderErrorText == "litellm.RateLimitError: rate limit exceeded"

TypeErrorText == "argument of type 'NoneType' is not iterable"

\* variants of the boundary below with a narrower except clause
CaughtAtBoundary_no_provider(kind) == kind \in {"OSError", "TypeError"}

CaughtAtBoundary_no_oserror(kind) == kind \in {"ProviderError", "TypeError"}

\* the classes `except Exception` catches: every fault class of the cycle derives from Exception
CaughtAtBoundary(kind) == kind \in {"OSError", "ProviderError", "TypeError"}

\* lines 126-130 / 177-181: the except branch of process and process_async
process_except(e) ==
    IF CaughtAtBoundary(e.kind)
    THEN /\ response' = AgentResponse(CROSS \o " Error: " \o e.text, None, FALSE, FALSE)
         /\ raised' = ""
    ELSE /\ raised' = e.text
         /\ UNCHANGED response

\* process(user_message) / process_async(user_message) is called
process_call(text, m, maxCycles) ==
    /\ pc = "Idle"
    /\ cycles < maxCycles
    /\ pc' = "BuildingContext"
    /\ user_message' = text
    /\ mode' = m
    /\ cycles' = cycles + 1
    /\ fault' = NoFault
    /\ raised' = ""
    /\ exec_calls' = 0
    /\ llm_calls' = 0
    /\ messages' = <<>>
    /\ llm_response' = None
    /\ code' = None
    /\ response' = NoResponse
    /\ UNCHANGED conversation_history
    /\ drop_frame
    /\ UNCHANGED << env_vars, mem_vars >>

\* messages = self._build_messages(user_message); fsFails: reading the memory files raises
BuildMessages(fsFails) ==
    /\ pc = "BuildingContext"
    /\ IF fsFails
       THEN /\ fault' = Fault("OSError", OSErrorText, "context")
            /\ process_except(fault')
            /\ pc' = "Idle"
            /\ UNCHANGED << conversation_history, messages >>
       ELSE /\ messages' = build_messages(conversation_history, user_message,
                                          memory_file, daily, today)
            /\ conversation_history' =
                   Append(conversation_history, history_entry(user_message))
            /\ pc' = "AwaitingModel"
            /\ UNCHANGED << fault, response, raised >>
    /\ UNCHANGED << mode, user_message, llm_response, code, exec_calls, llm_calls, cycles >>
    /\ UNCHANGED << exec_vars, env_vars, mem_vars >>

\* llm.chat(messages) / await llm.chat_async(messages) returns this content
llm_chat(content) ==
    /\ pc = "AwaitingModel"
    /\ llm_calls' = llm_calls + 1
    /\ llm_response' = content
    /\ pc' = "Extracting"
    /\ UNCHANGED << mode, user_message, conversation_history, messages, code, response,
                    raised, fault, exec_calls, cycles >>
    /\ llm' = completion(llm, None, None)
    /\ UNCHANGED << exec_vars, safe_mode, hasSIGALRM, environ, chan_vars, mem_vars >>

\* a variant of the failing model call below in which the call is made again
llm_error_retried ==
    /\ pc = "AwaitingModel"
    /\ llm_calls <= MaxCycles
    /\ llm_calls' = llm_calls + 1
    /\ llm' = completion(llm, None, None)
    /\ UNCHANGED << pc, mode, user_message, conversation_history, messages, llm_response,
                    code, response, raised, fault, exec_calls, cycles >>
    /\ UNCHANGED << exec_vars, safe_mode, hasSIGALRM, environ, chan_vars, mem_vars >>

\* the model call raises (network, rate limit, invalid model)
llm_error ==
    /\ pc = "AwaitingModel"
    /\ llm_calls' = llm_calls + 1
    /\ fault' = Fault("ProviderError", ProviderErrorText, "model")
    /\ process_except(fault')
    /\ pc' = "Idle"
    /\ UNCHANGED << mode, user_message, conversation_history, messages, llm_response,
                    code, exec_calls, cycles >>
    /\ llm' = completion(llm, None, None)
    /\ UNCHANGED << exec_vars, safe_mode, hasSIGALRM, environ, chan_vars, mem_vars >>

\* lines 81-85 and 117-124: extract the code; run it, or answer with the raw text
process_extract ==
    /\ pc = "Extracting"
    /\ IF IsNone(llm_response)
       THEN \* `"..." in None` raises TypeError
            /\ fault' = Fault("TypeError", TypeErrorText, "extraction")
            /\ process_except(fault')
            /\ pc' = "Idle"
            /\ UNCHANGED << code, exec_calls, exec_vars >>
       ELSE /\ code' = extract_code_from_response(llm_response.val)
            /\ IF Truthy(code')
               THEN /\ execute_begin(code'.val)
                    /\ exec_calls' = exec_calls + 1
                    /\ pc' = "Executing"
                    /\ UNCHANGED << response, raised, fault >>
               ELSE /\ response' = AgentResponse(llm_response.val, None, FALSE, TRUE)
                    /\ pc' = "Idle"
                    /\ UNCHANGED << raised, fault, exec_calls, exec_vars >>
    /\ UNCHANGED << mode, user_message, conversation_history, messages, llm_response,
                    llm_calls, cycles >>
    /\ UNCHANGED << env_vars, mem_vars >>

\* the text of the failure message of each variant
FailureMessage(m, stderr) ==
    IF m = "sync"
    THEN CROSS \o " Code execution failed:\n" \o Prefix(stderr, 500)
    ELSE CROSS \o " Execution failed:\n" \o Prefix(stderr, 500)

NoOutputMessage(m) ==
    IF m = "sync" THEN CHECK \o " Command executed (no output)"
    ELSE CHECK \o " Command executed"

\* the result text each variant hands to remember_user_command
RememberedResult(m, stdout) ==
    IF m = "sync" THEN Prefix(strip(stdout), 100) ELSE Prefix(stdout, 100)

\* lines 87-116 / 149-170: execute() has returned; fsFails: writing today's file raises
process_result(fsFails) ==
    /\ pc = "Executing"
    /\ ex_pc = "returned"
    /\ pc' = "Idle"
    /\ IF exec_result.success /\ exec_result.stdout # ""
       THEN IF fsFails
            THEN /\ fault' = Fault("OSError", OSErrorText, "memory")
                 /\ process_except(fault')
                 /\ UNCHANGED << daily, written >>
            ELSE /\ daily' = [daily EXCEPT ![today] =
                        append_today(daily[today],
                            user_command_entry(user_message,
                                RememberedResult(mode, exec_result.stdout)),
                            today)]
                 /\ written' = Append(written,
                        Written(FileName(today),
                            user_command_entry(user_message,
                                RememberedResult(mode, exec_result.stdout))))
                 /\ response' = AgentResponse(strip(exec_result.stdout), code, TRUE, TRUE)
                 /\ UNCHANGED << raised, fault >>
       ELSE /\ ~fsFails
            /\ UNCHANGED << daily, written, raised, fault >>
            /\ IF ~exec_result.success
               THEN response' = AgentResponse(FailureMessage(mode, exec_result.stderr),
                                              code, FALSE, FALSE)
               ELSE response' = AgentResponse(NoOutputMessage(mode), code, TRUE, TRUE)
    /\ UNCHANGED << mode, user_message, conversation_history, messages, llm_response,
                    code, exec_calls, llm_calls, cycles >>
    /\ UNCHANGED << exec_vars, env_vars, today, memory_file >>

reset_conversation ==
    /\ pc = "Idle"
    /\ conversation_history' = <<>>
    /\ UNCHANGED << pc, mode, user_message, messages, llm_response, code, response, raised,
                    fault, exec_calls, llm_calls, cycles >>
    /\ UNCHANGED << exec_vars, env_vars, mem_vars >>

\* midnight passes: today_date() returns the next date from now on
NextDay ==
    /\ today < MaxDay
    /\ today' = today + 1
    /\ UNCHANGED << daily, memory_file, written, exec_vars, env_vars, loop_vars >>

\* the executor's steps, as steps of the system
ExecStep == exec_step /\ UNCHANGED << env_vars, loop_vars, mem_vars >>

ExecReturn == exec_return /\ UNCHANGED << env_vars, loop_vars, mem_vars >>

ExecTick == Tick /\ UNCHANGED << env_vars, loop_vars, mem_vars >>

ExecTimeout == timeout_handler /\ UNCHANGED << env_vars, loop_vars, mem_vars >>

(***************************************************************************)
(* channels/whatsapp_bot: one AgentLoop per phone number, all of them on    *)
(* the workspace of the bot; Flask serves each webhook() call in a thread   *)
(* of its own, so the calls interleave at every step.                       *)
(***************************************************************************)
\* AgentLoop(workspace=self.workspace, llm_model=...): a new instance, history empty
AgentLoop_init == [conversation_history |-> <<>>]

\* the worker threads of the server
Workers == {"worker-1", "worker-2"}

\* a worker that serves no call
NoCall ==
    [pc |-> "idle", From |-> "", Body |-> "", agent |-> 0, existing |-> NoFile,
     messages |-> <<>>, served |-> 0]

\* what the code of the model's reply printed in the calls of the channel specification
PlugOutput == "Plug 35 is now Off\n"

\* the bot of the other specifications: it serves nobody
InitAdapter == adapter = "whatsapp" /\ allowed = << >>

\* the bot is constructed: its own agent exists, no user has one
InitChannel ==
    /\ agents = << AgentLoop_init >>
    /\ user_agents = << >>
    /\ webhooks = [w \in Workers |-> NoCall]

\* a variant of the test below that lets every sender in
is_authorized_everyone(list, sender) == TRUE

\* _is_authorized: an empty list restricts nothing
is_authorized(list, sender) ==
    IF list = <<>> THEN TRUE ELSE \E i \in 1..Len(list) : list[i] = sender

\* process records what the code printed as process() or process_async() cuts it
AdapterMode == IF adapter = "telegram" THEN "async" ELSE "sync"

\* no call is being served
AllIdle == \A w \in Workers : webhooks[w].pc = "idle"

\* webhook(): From and Body are read from the form; a sender that is not
\* authorized is answered at once
webhook_call(w, from_number, message_body, maxCalls) ==
    /\ adapter = "whatsapp"
    /\ webhooks[w].pc = "idle"
    /\ webhooks[w].served < maxCalls
    /\ webhooks' = [webhooks EXCEPT ![w] =
           [NoCall EXCEPT !.pc = IF is_authorized(allowed, from_number)
                                 THEN "Received" ELSE "idle",
                          !.From = from_number,
                          !.Body = strip(message_body), !.served = webhooks[w].served + 1]]
    /\ UNCHANGED << agents, user_agents >>

\* TelegramBot.handle_message up to the await of the model call: the handlers
\* of the bot run one update at a time
handle_message(w, user_id, text, maxCalls) ==
    /\ adapter = "telegram"
    /\ AllIdle
    /\ webhooks[w].served < maxCalls
    /\ IF ~is_authorized(allowed, user_id)
       THEN /\ webhooks' = [webhooks EXCEPT ![w] =
                   [NoCall EXCEPT !.From = user_id, !.Body = text,
                                  !.served = webhooks[w].served + 1]]
            /\ UNCHANGED << agents, user_agents >>
       ELSE LET made == IF user_id \in DOMAIN user_agents THEN agents
                        ELSE Append(agents, AgentLoop_init)
                dict == IF user_id \in DOMAIN user_agents THEN user_agents
                        ELSE (user_id :> Len(made)) @@ user_agents
            IN  /\ user_agents' = dict
                /\ agents' = [made EXCEPT ![dict[user_id]].conversation_history =
                                  Append(@, history_entry(text))]
                /\ webhooks' = [webhooks EXCEPT ![w] =
                       [NoCall EXCEPT
                           !.pc = "AwaitingModel", !.From = user_id, !.Body = text,
                           !.agent = dict[user_id],
                           !.messages = build_messages(made[dict[user_id]].conversation_history,
                                                       text, memory_file, daily, today),
                           !.served = webhooks[w].served + 1]]

\* TelegramBot.clear_command: the sender's agent, made if there is none, is reset
clear_command(w, user_id, maxCalls) ==
    /\ adapter = "telegram"
    /\ AllIdle
    /\ webhooks[w].served < maxCalls
    /\ LET made == IF user_id \in DOMAIN user_agents THEN agents
                   ELSE Append(agents, AgentLoop_init)
           dict == IF user_id \in DOMAIN user_agents THEN user_agents
                   ELSE (user_id :> Len(made)) @@ user_agents
       IN  /\ user_agents' = dict
           /\ agents' = [made EXCEPT ![dict[user_id]].conversation_history = <<>>]
    /\ webhooks' = [webhooks EXCEPT ![w] =
           [NoCall EXCEPT !.From = user_id, !.Body = "/clear",
                          !.served = webhooks[w].served + 1]]

\* _get_agent_for_user, line 72: `if phone_number not in self._user_agents`
get_agent_check(w) ==
    /\ webhooks[w].pc = "Received"
    /\ IF webhooks[w].From \in DOMAIN user_agents
       THEN webhooks' = [webhooks EXCEPT ![w].pc = "HasAgent",
                                         ![w].agent = user_agents[webhooks[w].From]]
       ELSE webhooks' = [webhooks EXCEPT ![w].pc = "Creating"]
    /\ UNCHANGED << agents, user_agents >>

\* lines 73-77: construct the AgentLoop, store it under the number, return the stored one
get_agent_set(w) ==
    /\ webhooks[w].pc = "Creating"
    /\ agents' = Append(agents, AgentLoop_init)
    /\ user_agents' = (webhooks[w].From :> Len(agents')) @@ user_agents
    /\ webhooks' = [webhooks EXCEPT ![w].pc = "HasAgent", ![w].agent = Len(agents')]

\* lines 124-128: `/clear` resets the conversation of the sender's agent
webhook_clear(w) ==
    /\ webhooks[w].pc = "HasAgent"
    /\ lower(webhooks[w].Body) = "/clear"
    /\ agents' = [agents EXCEPT ![webhooks[w].agent].conversation_history = <<>>]
    /\ webhooks' = [webhooks EXCEPT ![w].pc = "idle"]
    /\ UNCHANGED user_agents

\* agent.process(message_body), up to the model call: _build_messages
webhook_build(w) ==
    /\ webhooks[w].pc = "HasAgent"
    /\ lower(webhooks[w].Body) # "/clear"
    /\ webhooks' = [webhooks EXCEPT
           ![w].pc = "AwaitingModel",
           ![w].messages = build_messages(agents[webhooks[w].agent].conversation_history,
                                          webhooks[w].Body, memory_file, daily, today)]
    /\ agents' = [agents EXCEPT ![webhooks[w].agent].conversation_history =
                      Append(@, history_entry(webhooks[w].Body))]
    /\ UNCHANGED user_agents

\* the model replies and its code runs; when it printed, remember_user_command
\* starts append_today, which reads today's file (memory.py, lines 52-54)
webhook_reply(w, printed) ==
    /\ webhooks[w].pc = "AwaitingModel"
    /\ IF printed
       THEN webhooks' = [webhooks EXCEPT ![w].pc = "Appending",
                                         ![w].existing = daily[today]]
       ELSE webhooks' = [webhooks EXCEPT ![w].pc = "idle"]
    /\ UNCHANGED << agents, user_agents >>

\* the entry this call hands to append_today
webhook_entry(w) ==
    user_command_entry(webhooks[w].Body, RememberedResult(AdapterMode, PlugOutput))

\* append_today writes what it read with the entry added (memory.py, line 59),
\* and the response is returned
webhook_write(w) ==
    /\ webhooks[w].pc = "Appending"
    /\ daily' = [daily EXCEPT ![today] =
                     append_today(webhooks[w].existing, webhook_entry(w), today)]
    /\ written' = Append(written, Written(FileName(today), webhook_entry(w)))
    /\ webhooks' = [webhooks EXCEPT ![w].pc = "idle"]
    /\ UNCHANGED << agents, user_agents >>

(***************************************************************************)
(* Inputs.                                                                 *)
(***************************************************************************)
UserTexts == {"What's the temperature in Robot Corner?"}

Modes == {"sync", "async"}

\* a reply that carries the code in a python-tagged block
PyReply(c) == "Here is the code:\n~~~python\n" \o c \o "\n~~~\nDone."

\* a reply that carries the code in an untagged block
GenericReply(c) == "~~~\n" \o c \o "\n~~~"

TextReply == "All plugs are off."

\* code texts the model's replies carry in the pipeline specification
ReplyCodes ==
    CodeLines \cup
    { S_PRINT \o "\n" \o S_DIV,
      S_ACT \o "\n" \o S_DIV,
      S_PRINT \o "\n" \o S_SPIN,
      S_GUARD \o "\n" \o S_PRINT,
      S_BIND \o "\n" \o S_USE,
      S_PRINT \o "\n" \o S_OS }

Replies ==
    {PyReply(c) : c \in ReplyCodes}
    \cup { TextReply,
           GenericReply(S_PRINT),
           "~~~python\n~~~",
           "~~~python~~~ or ~~~\n" \o S_OS \o "\n~~~",
           "~~~\n" \o S_PRINT \o "\n~~~ then ~~~python\n" \o S_OS \o "\n~~~" }

\* code texts handed to execute() directly are made of these statements
ExecLines ==
    {S_PRINT, S_BIND, S_USE, S_SPIN, S_GUARD, S_OS, S_EVAL, S_BAD, S_SENSOR}

\* code texts handed to execute() directly
Codes == {join("\n", q) : q \in SeqsUpTo(ExecLines, MaxCodeLen)}

\* an existing long-term file, as remember_preference leaves it
OldPreferences ==
    File("# LinguaHome User Preferences\n\n- [2026-10-31 09:00] User prefers 22 degrees")

\* an existing file of the first day, as append_today leaves it
OldLog == append_today(NoFile, user_command_entry("Turn on plug 1", "done"), 0)

(***************************************************************************)
(* Specifications.                                                         *)
(***************************************************************************)
InitExecutor ==
    /\ MOCK_SENSORS = MockBase
    /\ ex_pc = "idle"
    /\ ex_code = ""
    /\ ex_stmts = <<>>
    /\ in_loop = FALSE
    /\ namespace = {}
    /\ stdout_capture = ""
    /\ sys_stdout = "__stdout__"
    /\ terminal = ""
    /\ alarm = 0
    /\ exec_result = SuccessResult("")
    /\ ran = <<>>
    /\ issued = <<>>
    /\ fired = FALSE
    /\ ex_fault = ""
    /\ calls = 0
    /\ bound_before = {}

\* AgentLoop.__init__ with its default model, in an environment that holds its key
InitGateway ==
    /\ environ = DefaultEnviron
    /\ llm = LLMProvider_init("gpt-4o", DefaultEnviron, TRUE)

InitLoop ==
    /\ InitChannel
    /\ mode = "sync"
    /\ user_message = ""
    /\ conversation_history = <<>>
    /\ messages = <<>>
    /\ code = None
    /\ response = NoResponse
    /\ raised = ""
    /\ fault = NoFault
    /\ exec_calls = 0
    /\ llm_calls = 0
    /\ cycles = 0

\* the workspace is new, or holds what earlier runs of the program left in it
InitMemory ==
    /\ today = 0
    /\ daily \in {[d \in Days |-> NoFile], [d \in Days |-> IF d = 0 THEN OldLog ELSE NoFile]}
    /\ memory_file \in {NoFile, OldPreferences}
    /\ written = <<>>

\* the request pipeline of one AgentLoop, constructed with its defaults
Init ==
    /\ InitExecutor
    /\ InitLoop
    /\ InitAdapter
    /\ pc = "Idle"
    /\ llm_response = None
    /\ InitMemory
    /\ safe_mode = TRUE
    /\ hasSIGALRM \in BOOLEAN
    /\ InitGateway

Next ==
    \/ \E text \in UserTexts, m \in Modes : process_call(text, m, MaxCycles)
    \/ \E fsFails \in BOOLEAN : BuildMessages(fsFails)
    \/ \E r \in Replies : llm_chat(Some(r))
    \/ llm_chat(None)
    \/ llm_error
    \/ process_extract
    \/ ExecStep
    \/ ExecReturn
    \/ ExecTick
    \/ ExecTimeout
    \/ \E fsFails \in BOOLEAN : process_result(fsFails)
    \/ reset_conversation
    \/ NextDay

Spec == Init /\ [][Next]_vars

\* a test harness calls execute(code) on one CodeExecutor
execute_call(c) ==
    /\ ex_pc = "idle"
    /\ calls < MaxExecCalls
    /\ execute_begin(c)
    /\ UNCHANGED << env_vars, loop_vars, mem_vars >>

\* the harness has read the result of the call
execute_done ==
    /\ ex_pc = "returned"
    /\ drop_frame
    /\ UNCHANGED << env_vars, loop_vars, mem_vars >>

InitExec ==
    /\ InitExecutor
    /\ InitLoop
    /\ InitAdapter
    /\ pc = "Idle"
    /\ llm_response = None
    /\ InitMemory
    /\ memory_file = NoFile
    /\ daily[0] = NoFile
    /\ safe_mode \in BOOLEAN
    /\ hasSIGALRM \in BOOLEAN
    /\ InitGateway

NextExec ==
    \/ \E c \in Codes : execute_call(c)
    \/ execute_done
    \/ ExecStep
    \/ ExecReturn
    \/ ExecTick
    \/ ExecTimeout

SpecExec == InitExec /\ [][NextExec]_vars

\* many requests on one AgentLoop, never reset: the history window
InitWindow ==
    /\ InitExecutor
    /\ InitLoop
    /\ InitAdapter
    /\ pc = "Idle"
    /\ llm_response = None
    /\ InitMemory
    /\ memory_file = NoFile
    /\ daily[0] = NoFile
    /\ safe_mode = TRUE
    /\ hasSIGALRM = TRUE
    /\ InitGateway

\* the text of the n-th request of the window specification
NumberedText(n) == "Request " \o ToString(n)

NextWindow ==
    \/ process_call(NumberedText(cycles + 1), "sync", max_history + ExtraCalls)
    \/ BuildMessages(FALSE)
    \/ llm_chat(Some(TextReply))
    \/ llm_chat(Some(PyReply(S_BIND)))
    \/ process_extract
    \/ ExecStep
    \/ ExecReturn
    \/ process_result(FALSE)

SpecWindow == InitWindow /\ [][NextWindow]_vars

\* extract_code_from_response applied to every reply made of these pieces
RespTokens == {FENCE, "python", "\n", "a", "b"}

InitExtract ==
    /\ InitExecutor
    /\ InitLoop
    /\ InitAdapter
    /\ InitMemory
    /\ memory_file = NoFile
    /\ daily[0] = NoFile
    /\ safe_mode = TRUE
    /\ hasSIGALRM = TRUE
    /\ InitGateway
    /\ \E q \in SeqsUpTo(RespTokens, MaxRespLen) :
         /\ llm_response = Some(join("", q))
         /\ pc = "Extracting"

\* code = self.executor.extract_code_from_response(llm_response.content), alone
extract_only ==
    /\ pc = "Extracting"
    /\ ~IsNone(llm_response)
    /\ code' = extract_code_from_response(llm_response.val)
    /\ pc' = "Extracted"
    /\ UNCHANGED << mode, user_message, conversation_history, messages, llm_response,
                    response, raised, fault, exec_calls, llm_calls, cycles >>
    /\ UNCHANGED << exec_vars, env_vars, mem_vars >>

NextExtract == extract_only

SpecExtract == InitExtract /\ [][NextExtract]_vars

\* requests and resets on one AgentLoop over more than one cycle and day
InitReset ==
    /\ InitExecutor
    /\ InitLoop
    /\ InitAdapter
    /\ pc = "Idle"
    /\ llm_response = None
    /\ InitMemory
    /\ safe_mode = TRUE
    /\ hasSIGALRM = TRUE
    /\ InitGateway

NextReset ==
    \/ \E text \in UserTexts : process_call(text, "sync", MaxCycles + 1)
    \/ BuildMessages(FALSE)
    \/ llm_chat(Some(TextReply))
    \/ llm_chat(Some(PyReply(S_PRINT)))
    \/ process_extract
    \/ ExecStep
    \/ ExecReturn
    \/ process_result(FALSE)
    \/ reset_conversation
    \/ NextDay

SpecReset == InitReset /\ [][NextReset]_vars

\* the model names handed to LLMProvider in the gateway specification
ModelNames ==
    {MODEL_ALIASES[i][1] : i \in 1..Len(MODEL_ALIASES)}
    \cup { "GPT4", "Claude-Opus", "GEMINI-1.5", "gpt-4-turbo", "GPT-4-Turbo", "o1-mini",
           "o3-mini", "openai/gpt-4o", "mistral/mistral-small" }

\* LLMProvider(model=...) is constructed, as AgentLoop.__init__ does
construct_gateway(model, litellm_installed) ==
    /\ llm.state = "none"
    /\ llm' = LLMProvider_init(model, environ, litellm_installed)
    /\ UNCHANGED << exec_vars, safe_mode, hasSIGALRM, environ, chan_vars, loop_vars, mem_vars >>

\* chat(messages) is called on the constructed gateway
gateway_chat(temperature, max_tokens) ==
    /\ llm.state = "constructed"
    /\ llm.completions < MaxChats
    /\ llm' = completion(llm, temperature, max_tokens)
    /\ UNCHANGED << exec_vars, safe_mode, hasSIGALRM, environ, chan_vars, loop_vars, mem_vars >>

\* the overrides handed to chat(): absent, zero, or a value; temperatures in tenths
Temperatures == {None, Some(0), Some(7)}

TokenLimits == {None, Some(0), Some(256)}

\* a process that has not constructed its gateway yet, in any environment
InitGatewaySpec ==
    /\ InitExecutor
    /\ InitLoop
    /\ InitAdapter
    /\ pc = "Idle"
    /\ llm_response = None
    /\ today = 0
    /\ daily = [d \in Days |-> NoFile]
    /\ memory_file = NoFile
    /\ written = <<>>
    /\ safe_mode = TRUE
    /\ hasSIGALRM = TRUE
    /\ environ \in [CredentialKeys -> {None, Some(""), Some("sk-1")}]
    /\ llm = NoProvider

NextGateway ==
    \/ \E model \in ModelNames, installed \in BOOLEAN : construct_gateway(model, installed)
    \/ \E temperature \in Temperatures, max_tokens \in TokenLimits :
          gateway_chat(temperature, max_tokens)

SpecGateway == InitGatewaySpec /\ [][NextGateway]_vars

\* the messages the bot receives: sender and body
Incoming ==
    { << "whatsapp:+1", "What's the temperature in Robot Corner?" >>,
      << "whatsapp:+2", "Turn off all plugs " >>,
      << "whatsapp:+1", "/clear" >>,
      << "whatsapp:+2", "/Clear" >> }

\* the text messages the Telegram bot receives: user id and text
Updates ==
    { << "101", "Is anyone in the Entrance?" >>,
      << "202", "Compare temperatures in all rooms" >> }

\* the bot serves webhook calls on a new workspace
InitChannelSpec ==
    /\ InitExecutor
    /\ InitLoop
    /\ \/ adapter = "whatsapp" /\ allowed \in {<< >>, << "whatsapp:+1" >>}
       \/ adapter = "telegram" /\ allowed \in {<< >>, << "101" >>}
    /\ pc = "Idle"
    /\ llm_response = None
    /\ today = 0
    /\ daily = [d \in Days |-> NoFile]
    /\ memory_file = NoFile
    /\ written = <<>>
    /\ safe_mode = TRUE
    /\ hasSIGALRM = TRUE
    /\ InitGateway

ChannelFrame ==
    UNCHANGED << exec_vars, safe_mode, hasSIGALRM, environ, llm, loop_vars, adapter, allowed >>

NextChannel ==
    \/ \E w \in Workers, m \in Incoming :
          /\ webhook_call(w, m[1], m[2], MaxCalls)
          /\ ChannelFrame /\ UNCHANGED mem_vars
    \/ \E w \in Workers, u \in Updates :
          /\ handle_message(w, u[1], u[2], MaxCalls)
          /\ ChannelFrame /\ UNCHANGED mem_vars
    \/ \E w \in Workers, u \in Updates :
          /\ clear_command(w, u[1], MaxCalls)
          /\ ChannelFrame /\ UNCHANGED mem_vars
    \/ \E w \in Workers : get_agent_check(w) /\ ChannelFrame /\ UNCHANGED mem_vars
    \/ \E w \in Workers : get_agent_set(w) /\ ChannelFrame /\ UNCHANGED mem_vars
    \/ \E w \in Workers : webhook_clear(w) /\ ChannelFrame /\ UNCHANGED mem_vars
    \/ \E w \in Workers : webhook_build(w) /\ ChannelFrame /\ UNCHANGED mem_vars
    \/ \E w \in Workers, printed \in BOOLEAN :
          webhook_reply(w, printed) /\ ChannelFrame /\ UNCHANGED mem_vars
    \/ \E w \in Workers :
          webhook_write(w) /\ ChannelFrame /\ UNCHANGED << today, memory_file >>

SpecChannel == InitChannelSpec /\ [][NextChannel]_vars

\* the texts handed to the memory operations in the memory specification
LogContents == {"Test entry 1", "a\r\nb"}

\* self.append_today(content), today_file.write_text included
write_today(content) ==
    /\ Len(written) < MaxWrites
    /\ daily' = [daily EXCEPT ![today] = append_today(@, content, today)]
    /\ written' = Append(written, Written(FileName(today), content))
    /\ UNCHANGED << today, memory_file, exec_vars, env_vars, loop_vars >>

\* self.append_long_term(content), write_long_term included
write_long_term(content) ==
    /\ Len(written) < MaxWrites
    /\ memory_file' = append_long_term(memory_file, content)
    /\ written' = Append(written, Written("MEMORY.md", content))
    /\ UNCHANGED << today, daily, exec_vars, env_vars, loop_vars >>

remember_user_command(command, result) == write_today(user_command_entry(command, result))

remember_sensor_event(sensor_name, value, status) ==
    write_today(sensor_event_entry(sensor_name, value, status))

remember_preference(preference) == write_long_term(preference_entry(preference, today))

\* a MemoryStore on an empty workspace, as test_memory makes it
InitMemorySpec ==
    /\ InitExecutor
    /\ InitLoop
    /\ InitAdapter
    /\ pc = "Idle"
    /\ llm_response = None
    /\ today = 0
    /\ daily = [d \in Days |-> NoFile]
    /\ memory_file = NoFile
    /\ written = <<>>
    /\ safe_mode = TRUE
    /\ hasSIGALRM = TRUE
    /\ InitGateway

NextMemory ==
    \/ \E content \in LogContents : write_today(content)
    \/ \E result \in LogContents : remember_user_command("Turn on plug 1", result)
    \/ remember_sensor_event("temp_sensor", "23.5", "Active")
    \/ \E content \in LogContents : write_long_term(content)
    \/ \E preference \in LogContents : remember_preference(preference)
    \/ NextDay

SpecMemory == InitMemorySpec /\ [][NextMemory]_vars

(***************************************************************************)
(* Properties.                                                             *)
(***************************************************************************)
\* the deny-listed substrings that occur in a code text
Occurring(c) == {i \in 1..Len(FORBIDDEN_PATTERNS) : In(FORBIDDEN_PATTERNS[i], c)}

\* execute() has returned and its result has not been taken yet
Returned == ex_pc = "returned"

\* a request cycle has ended and the next has not begun
CycleEnded == pc = "Idle" /\ cycles > 0

\* C1 (SpecExec): in safe mode, when the code handed to execute() contains a
\* deny-listed substring, execute() returns success = false with no output, the
\* stderr "Code validation failed: Forbidden pattern detected: <p>" for a
\* deny-listed p that occurs in the code, and no statement of the code has run
\* and no actuator command has been issued.
C1_DenyListedCodeNeverRuns ==
    (Returned /\ safe_mode) =>
        LET occurring == Occurring(ex_code) IN
        occurring # {} =>
            /\ ~exec_result.success
            /\ exec_result.stdout = ""
            /\ \E i \in occurring :
                 exec_result.stderr =
                     "Code validation failed: Forbidden pattern detected: "
                     \o FORBIDDEN_PATTERNS[i]
            /\ ran = <<>>
            /\ issued = <<>>
            /\ namespace = {}

\* a code with two deny-listed substrings, the later one of the list first in the
\* text, has been refused with the earlier one of the list named
C1_Witness ==
    /\ Returned
    /\ safe_mode
    /\ In("getattr(", ex_code)
    /\ In("eval(", ex_code)
    /\ ~In("import os", ex_code)
    /\ exec_result.stderr = "Code validation failed: Forbidden pattern detected: eval("
    /\ calls = 2

\* C2 (Spec): when the code extracted from the model output (the variable code
\* of process) contains "import os", the cycle ends with no statement of the
\* code run, and the response has success = false, code_executed = false,
\* code_generated equal to the extracted code, and a message that contains the
\* validation-failure reason.
C2_ImportOsIsRefused ==
    (CycleEnded /\ ~IsNone(code) /\ In("import os", code.val)) =>
        /\ ran = <<>>
        /\ issued = <<>>
        /\ exec_calls = 1
        /\ ~response.success
        /\ ~response.code_executed
        /\ response.code_generated = code
        /\ In("Code validation failed: Forbidden pattern detected: import os",
              response.message)
        /\ raised = ""

\* a reply whose code prints before it imports os has been refused as a whole
C2_Witness ==
    /\ CycleEnded
    /\ code = Some(S_PRINT \o "\n" \o S_OS)
    /\ ~response.success
    /\ ran = <<>>
    /\ mode = "async"

\* the failure a cycle reports for a fault caught at the boundary of process()
BoundaryFailure(text) == AgentResponse(CROSS \o " Error: " \o text, None, FALSE, FALSE)

\* C3 as stated (Spec): no cycle raises to its caller, and a fault raised in context
\* building, the model call, extraction, execution or memory recording ends the
\* cycle with a success = false response whose message contains the error text
\* (for a fault of the generated code: the line that names the fault).
C3_MessageCarriesErrorText ==
    CycleEnded =>
        /\ raised = ""
        /\ (fault.kind # "" => ~response.success /\ In(fault.text, response.message))
        /\ (ex_fault # "" => ~response.success /\ In(ex_fault, response.message))

\* C3 amended (Spec): no cycle raises to its caller; a fault raised in context
\* building, the model call, extraction or memory recording ends the cycle with a
\* success = false response whose message contains the error text; a failed
\* execution ends it with a success = false response whose message contains the
\* first 500 characters of the returned stderr, which hold the line that names
\* the fault whenever the traceback is no longer than that.
C3_FaultsBecomeFailureResponses ==
    CycleEnded =>
        /\ raised = ""
        /\ (fault.kind # "" => ~response.success /\ In(fault.text, response.message))
        /\ (exec_calls > 0 /\ ~exec_result.success /\ fault.kind = "" =>
                /\ ~response.success
                /\ In(Prefix(exec_result.stderr, 500), response.message)
                /\ Len(response.message) <= 500 + Len(CROSS \o " Code execution failed:\n")
                /\ (ex_fault # "" /\ Len(exec_result.stderr) <= 500 =>
                        In(ex_fault, response.message)))

\* a cycle whose code ran and printed has failed while recording the command
C3_Witness ==
    /\ CycleEnded
    /\ fault.where = "memory"
    /\ ~response.success
    /\ ran # <<>>
    /\ exec_result.success

\* C4 as stated (Spec): a filesystem error raised by MemoryStore during a cycle
\* reaches the caller of process() and no AgentResponse is returned.
C4_FilesystemErrorEscapes ==
    (CycleEnded /\ fault.kind = "OSError") =>
        /\ raised # ""
        /\ response = NoResponse

\* C4 amended (Spec): a filesystem error raised by MemoryStore during a cycle, while
\* reading the memory context or while recording the command, does not reach the
\* caller: the cycle returns the boundary's failure response (success = false,
\* code_executed = false, code_generated = None, message: the error text), before
\* any model call in the first case and after the code has run in the second.
C4_FilesystemErrorIsCaughtAtBoundary ==
    (CycleEnded /\ fault.kind = "OSError") =>
        /\ raised = ""
        /\ response = BoundaryFailure(OSErrorText)
        /\ fault.where \in {"context", "memory"}
        /\ (fault.where = "context" => llm_calls = 0 /\ exec_calls = 0 /\ messages = <<>>)
        /\ (fault.where = "memory" =>
                exec_calls = 1 /\ exec_result.success /\ exec_result.stdout # "")

\* reading the memory context has failed and the cycle has answered with a failure
C4_Witness ==
    /\ CycleEnded
    /\ fault = Fault("OSError", OSErrorText, "context")
    /\ response = BoundaryFailure(OSErrorText)
    /\ memory_file = OldPreferences

\* C5 (Spec): when extract_code_from_response has yielded None or "" for the
\* model output, the cycle makes no execute() call and returns code_generated = None,
\* code_executed = false, success = true and the raw model text as message.
C5_NoCodeMeansTextReply ==
    (CycleEnded /\ ~IsNone(llm_response) /\ (IsNone(code) \/ code.val = "")) =>
        /\ exec_calls = 0
        /\ ex_pc = "idle"
        /\ response = AgentResponse(llm_response.val, None, FALSE, TRUE)
        /\ raised = ""

\* a reply with an empty python block has been answered with its raw text
C5_Witness ==
    /\ CycleEnded
    /\ code = Some("")
    /\ response.message = "~~~python\n~~~"
    /\ response.success

\* C6 (SpecExec): when the code passed validation and a statement of it raised a
\* fault, execute() returns success = false, a non-empty stderr that holds the
\* fault detail, and as stdout exactly what the code printed before the fault.
C6_FaultKeepsOutput ==
    (Returned /\ ex_fault # "") =>
        /\ ~exec_result.success
        /\ exec_result.stderr # ""
        /\ In(ex_fault, exec_result.stderr)
        /\ exec_result.stdout = stdout_capture
        /\ (ran = <<S_PRINT, S_USE>> => exec_result.stdout = "a\n")
        /\ (ran = <<S_PRINT, S_PRINT, S_USE>> => exec_result.stdout = "a\na\n")
        /\ (Len(ran) = 1 => exec_result.stdout = "")

\* validated code has printed and then raised
C6_Witness ==
    /\ Returned
    /\ safe_mode
    /\ validate_code(safe_mode, ex_code).is_safe
    /\ ran = <<S_PRINT, S_USE>>
    /\ ex_fault = E_NAME_X
    /\ exec_result.stdout = "a\n"

\* C7 as stated (SpecExec): on a platform with SIGALRM, when the alarm went off
\* while validated code was running, execute() returns success = false with the
\* stderr "Execution timed out after <timeout> seconds".
C7_TimeoutIsReported ==
    (Returned /\ hasSIGALRM /\ fired /\ validate_code(safe_mode, ex_code).is_safe) =>
        /\ ~exec_result.success
        /\ exec_result.stderr = "Execution timed out after " \o ToString(timeout) \o " seconds"

\* the values a call that reads the temperature sensor can print when no earlier
\* call has left anything behind
FreshReadings == {Fmt1f(MockBase[1078] + v) \o "\n" : v \in Variations}

\* C8 as stated (SpecExec): consecutive execute() calls share no state: a call
\* starts with none of the names earlier calls bound, and what a call reads
\* from the objects it is given does not depend on what earlier calls did to them.
C8_CallsShareNoState ==
    /\ (ex_pc = "running" /\ ran = <<>> => namespace \cap bound_before = {})
    /\ (Returned /\ ran = <<S_USE>> => ex_fault = E_NAME_X)
    /\ (Returned /\ ran = <<S_SENSOR>> /\ exec_result.success =>
            exec_result.stdout \in FreshReadings)

\* the fenced blocks of a text that are closed: fences pair up from the left
Blocks(text) ==
    LET parts == split(text, FENCE)
    IN  [k \in 1..((Len(parts) - 1) \div 2) |-> parts[2 * k]]

IsTagged(block) == MatchAt(block, "python", 0)

TaggedContent(block) == strip(Slice(block, Len("python"), Len(block)))

\* C9 as stated (SpecExtract): for a model output that holds a closed python-tagged
\* block and a closed untagged block, in either order, extract_code_from_response
\* returns the content of the first python-tagged block.
C9_TaggedBlockWins ==
    (pc = "Extracted") =>
        LET blocks == Blocks(llm_response.val)
            tagged == {k \in DOMAIN blocks : IsTagged(blocks[k])}
            plain  == {k \in DOMAIN blocks : ~IsTagged(blocks[k])}
        IN  (tagged # {} /\ plain # {}) =>
                LET first == CHOOSE k \in tagged : \A j \in tagged : k <= j
                IN  code = Some(TaggedContent(blocks[first]))

ResetStep == pc = "Idle" /\ pc' = "Idle" /\ conversation_history' # conversation_history

\* C11 (SpecReset): a reset empties the conversation history and changes nothing
\* else: the memory files are as before, so get_memory_context() returns after
\* the reset what it returned before it; and the system message of every
\* request, reset or not, holds the memory files of that moment, so a request
\* after a reset still carries the entries written before it.
C11_ResetKeepsMemory ==
    /\ [][ResetStep =>
            /\ conversation_history' = <<>>
            /\ UNCHANGED << mem_vars, exec_vars, env_vars >>
            /\ UNCHANGED << mode, user_message, messages, llm_response, code, response,
                            raised, fault, exec_calls, llm_calls, cycles >>
            /\ get_memory_context(memory_file', daily', today')
                   = get_memory_context(memory_file, daily, today)]_vars
    /\ [](pc = "AwaitingModel" =>
            /\ messages[1].role = "system"
            /\ (daily[today].exists => In(daily[today].text, messages[1].content))
            /\ (memory_file.exists => In(memory_file.text, messages[1].content)))

\* the second request follows a reset (one history entry, not two) and its system
\* message holds the entry the first request wrote
C11_Witness ==
    /\ pc = "AwaitingModel"
    /\ cycles = 2
    /\ Len(conversation_history) = 1
    /\ daily[today].exists
    /\ In(user_command_entry(user_message, "a"), messages[1].content)
    /\ daily[0] # OldLog

\* C12 as stated (Spec): the top-level names the generated code finds in an
\* execute() call are the restricted builtins and the three capability objects
\* only: the namespace holds no other key, and code that reads any other name
\* of the host, such as json, gets a NameError.
C12_OnlyCuratedNames ==
    /\ (ex_pc = "running" => NamespaceKeys \subseteq {"__builtins__"} \cup Capabilities)
    /\ (Returned /\ ran = <<S_LOADS>> => ex_fault = E_NAME_JSON)

\* the request of the scenario has been answered from a reply whose code reads
\* sensor 1078 and prints its value, and recording the command did not fail
SensorAnswered ==
    /\ CycleEnded
    /\ user_message = "What's the temperature in Robot Corner?"
    /\ code = Some(S_SENSOR)
    /\ fault = NoFault

\* C13 as stated (Spec): the response to the scenario's request contains "23.9".
C13_MessageHoldsBaseReading ==
    SensorAnswered => In("23.9", response.message)

\* C13 amended (Spec): the response to the scenario's request is successful and
\* its message is the reading the Sensors object built by the code reports: the
\* value in the mock data at the time of the construction moved by the variation
\* of that construction, which is within 0.5 of 23.9 for the first construction
\* of the process (23.4, 23.9 or 24.4 with the variations modelled) and within
\* 0.5 more for every construction before it.
C13_MessageHoldsVariedReading ==
    SensorAnswered =>
        /\ response.success
        /\ response.code_executed
        /\ response.message = Fmt1f(MOCK_SENSORS[1078])
        /\ MOCK_SENSORS[1078] - MockBase[1078] \in (-5 * cycles)..(5 * cycles)
        /\ (cycles = 1 => response.message \in {"23.4", "23.9", "24.4"})

\* the scenario has been answered with a reading other than the one in the data
C13_Witness ==
    /\ SensorAnswered
    /\ response.message = "24.4"
    /\ cycles = 1

\* the text print-only statements write: the argument of each and a line break
RECURSIVE PrintedText(_)
PrintedText(stmts) ==
    IF stmts = <<>> THEN "" ELSE "a\n" \o PrintedText(Tail(stmts))

\* the code passed validation, consists of print statements only, and has returned
PrintOnlyReturned ==
    /\ Returned
    /\ validate_code(safe_mode, ex_code).is_safe
    /\ ~SyntaxInvalid(ex_code)
    /\ \A i \in DOMAIN Statements(ex_code) : Statements(ex_code)[i] = S_PRINT

\* C14 (SpecExec): for validated code that only prints, execute() returns
\* success with stdout exactly the printed text; the output of the code goes to
\* the capture while it runs, and when execute() has returned sys.stdout is the
\* stream the process started with, which has received none of the text.
C14_OutputIsCapturedAndStreamRestored ==
    /\ PrintOnlyReturned =>
          /\ exec_result.success
          /\ exec_result.stdout = PrintedText(Statements(ex_code))
          /\ exec_result.stderr = ""
    /\ (ex_pc = "running" <=> sys_stdout = "stdout_capture")
    /\ (ex_pc # "running" => sys_stdout = "__stdout__")
    /\ terminal = ""

\* two print statements have run and their text has been returned
C14_Witness ==
    /\ PrintOnlyReturned
    /\ Len(Statements(ex_code)) = 2
    /\ exec_result.stdout = "a\na\n"
    /\ sys_stdout = "__stdout__"

\* a step that ends a request cycle of process()
SyncCycleEnds == pc # "Idle" /\ pc' = "Idle" /\ mode = "sync"

\* an entry for the command of this cycle is in a memory log
CommandLogged ==
    \E d \in Days : daily[d].exists /\ In("Command: " \o user_message, daily[d].text)

\* C15 as stated (Spec): a completed process() cycle that returned output, the
\* stdout of executed code or the raw model text, has an entry for its command in
\* the memory log when the response is returned.
C15_EveryOutputIsRecorded ==
    (/\ CycleEnded
     /\ mode = "sync"
     /\ raised = ""
     /\ response.success
     /\ \/ code = None /\ response.message = llm_response.val
        \/ response.code_executed /\ exec_result.stdout # "")
    => CommandLogged

\* C15 amended (Spec): the step that ends a process() cycle appends exactly one
\* entry for the command to today's log, the stripped stdout cut to 100 characters
\* as its result, when the code ran with success and printed something, and the
\* response returned is then that stdout; a cycle that ends in any other way, the
\* raw model text included, leaves every memory file as it was.
C15_OnlyPrintedResultsAreRecorded ==
    [][SyncCycleEnds =>
          IF code # None /\ exec_result.success /\ exec_result.stdout # "" /\ fault' = NoFault
          THEN /\ daily' = [daily EXCEPT ![today] =
                               append_today(@, "- [12:00:00] Command: " \o user_message
                                               \o "\n  Result: "
                                               \o Prefix(strip(exec_result.stdout), 100),
                                            today)]
               /\ response' = AgentResponse(strip(exec_result.stdout), code, TRUE, TRUE)
               /\ UNCHANGED memory_file
          ELSE UNCHANGED << daily, memory_file >>]_vars

\* a process() cycle has answered with the raw model text and nothing was recorded
C15_Witness ==
    /\ CycleEnded
    /\ mode = "sync"
    /\ code = None
    /\ response = AgentResponse(TextReply, None, FALSE, TRUE)
    /\ ~CommandLogged

\* C16 (Spec): in every cycle the context is built before the model is called,
\* the model is called exactly once unless building the context failed, execute()
\* is called at most once, after the model call and only with the non-empty code
\* extracted from its reply, and the response comes last; a failed model call is
\* not retried and no execute() happens in a cycle whose model call failed.
C16_StepsInOrder ==
    /\ pc = "BuildingContext" => llm_calls = 0 /\ exec_calls = 0 /\ messages = <<>>
    /\ pc = "AwaitingModel" => llm_calls = 0 /\ exec_calls = 0 /\ messages # <<>>
    /\ pc = "Extracting" => llm_calls = 1 /\ exec_calls = 0 /\ response = NoResponse
    /\ pc = "Executing" =>
          /\ llm_calls = 1
          /\ exec_calls = 1
          /\ ~IsNone(llm_response)
          /\ code = extract_code_from_response(llm_response.val)
          /\ code # None
          /\ code.val # ""
          /\ ex_code = code.val
          /\ response = NoResponse
    /\ CycleEnded =>
          /\ llm_calls = (IF fault.where = "context" THEN 0 ELSE 1)
          /\ exec_calls = (IF Truthy(code) THEN 1 ELSE 0)
          /\ (fault.where = "model" => exec_calls = 0 /\ code = None)
          /\ (exec_calls = 1 => ex_pc = "returned" /\ ex_code = code.val)
    /\ calls <= cycles

\* a cycle has ended after one model call and one execute()
C16_Witness ==
    /\ CycleEnded
    /\ llm_calls = 1
    /\ exec_calls = 1
    /\ response.code_executed
    /\ ran # <<>>

\* the provider whose service answers for a model name: the names the code
\* tells apart, and the other name forms of OpenAI models ("o3-...", "openai/...")
ServingProvider(model) ==
    IF startswith(lower(model), "o3") \/ startswith(lower(model), "openai/")
    THEN "openai"
    ELSE get_provider_from_model(model)

\* C17 as stated (SpecGateway): a gateway is constructed, and so issues its
\* completion requests, only in an environment that holds the credential of
\* the provider of its resolved model.
C17_NoGatewayWithoutCredential ==
    llm.state = "constructed" =>
        verify_api_key(ServingProvider(llm.model), environ) = ""

\* the contents handed to the file of that name, in the order of the calls
EntriesOf(name) ==
    LET IsOf(w) == w.file = name
        of == SelectSeq(written, IsOf)
    IN  [i \in 1..Len(of) |-> of[i].content]

\* a file that was only ever appended to: absent before the first entry, and then
\* its header followed by the entries in order with a line break between them
AppendOnly(file, header, entries) ==
    IF entries = <<>> THEN ~file.exists
    ELSE file = File(header \o join("\n", entries))

\* C18 as stated (SpecMemory): after any sequence of append_today,
\* remember_user_command, remember_sensor_event, append_long_term and
\* remember_preference calls every memory file holds its header, written by the
\* first call, followed by the entries of the calls in order, each separated from
\* the previous one by a line break, so that the content before a call is a prefix
\* of the content after it.
C18_FilesAreAppendOnly ==
    /\ \A d \in Days :
          AppendOnly(daily[d], "# LinguaHome Log - " \o DateStr(d) \o "\n\n",
                     EntriesOf(FileName(d)))
    /\ AppendOnly(memory_file, "# LinguaHome User Preferences\n\n", EntriesOf("MEMORY.md"))

\* the text of a memory file as the store reads it, "" when there is no file
TextOf(file) == IF file.exists THEN read_text(file.text) ELSE ""

\* the two sections in the layout of the context block
ContextOf(long_term, recent) ==
    IF long_term # "" /\ recent # ""
    THEN "## User Preferences\n" \o long_term \o "\n\n" \o "## Recent Activity\n" \o recent
    ELSE IF long_term # "" THEN "## User Preferences\n" \o long_term
    ELSE IF recent # "" THEN "## Recent Activity\n" \o recent
    ELSE ""

\* the days up to today that have a log
RecordedDays == {d \in Days : d <= today /\ daily[d].exists}

\* C19 as stated (SpecMemory): get_memory_context() returns the long-term
\* section followed by the section of the most recent day that has recorded
\* activity, and the empty text only when nothing has been recorded.
C19_ContextShowsMostRecentDay ==
    LET context == get_memory_context(memory_file, daily, today)
        latest  == IF RecordedDays = {} THEN ""
                   ELSE TextOf(daily[CHOOSE d \in RecordedDays : \A e \in RecordedDays : e <= d])
    IN  /\ context = ContextOf(TextOf(memory_file), latest)
        /\ (context = "" <=> ~memory_file.exists /\ RecordedDays = {})

\* C19 amended (SpecMemory): get_memory_context() returns the long-term section
\* followed by the section of today's log, whatever earlier days hold, and the
\* empty text exactly when there is neither long-term content nor a log of today.
C19_ContextShowsTodayOnly ==
    LET context == get_memory_context(memory_file, daily, today)
    IN  /\ context = ContextOf(TextOf(memory_file), TextOf(daily[today]))
        /\ (context = "" <=> ~memory_file.exists /\ ~daily[today].exists)

\* the day before has a log, today has none, and the context is empty
C19_Witness ==
    /\ today = 1
    /\ daily[0].exists
    /\ ~daily[1].exists
    /\ ~memory_file.exists
    /\ get_memory_context(memory_file, daily, today) = ""

\* C20 as stated (Spec): a process_async() cycle ends as the process() cycle
\* on the same conversation, memory, user text and model reply ends: with the
\* response process() returns for the result of the code, and with the entry
\* process() records in today's log.
C20_VariantsAgree ==
    (CycleEnded /\ mode = "async" /\ exec_calls = 1 /\ fault = NoFault) =>
        IF ~exec_result.success
        THEN response = AgentResponse(FailureMessage("sync", exec_result.stderr),
                                      code, FALSE, FALSE)
        ELSE IF exec_result.stdout = ""
        THEN response = AgentResponse(NoOutputMessage("sync"), code, TRUE, TRUE)
        ELSE /\ response = AgentResponse(strip(exec_result.stdout), code, TRUE, TRUE)
             /\ written # <<>>
             /\ written[Len(written)].content =
                    user_command_entry(user_message, RememberedResult("sync", exec_result.stdout))

\* the keys of MODEL_ALIASES
AliasKeys == {MODEL_ALIASES[i][1] : i \in 1..Len(MODEL_ALIASES)}

\* C21 (SpecGateway): the model of a provider object is the resolution of the
\* name it was constructed with; resolving it again gives the same name; a name
\* that is an alias in any spelling of upper and lower case resolves as the
\* alias in lower case does; and the provider derived from the resolution of an
\* alias is openai, anthropic or google, never unknown.
C21_ResolutionIsIdempotent ==
    llm.state # "none" =>
        /\ llm.model = resolve_model(llm.name)
        /\ resolve_model(llm.model) = llm.model
        /\ (lower(llm.name) \in AliasKeys =>
               /\ llm.model = resolve_model(lower(llm.name))
               /\ \E i \in 1..Len(MODEL_ALIASES) :
                     MODEL_ALIASES[i] = <<lower(llm.name), llm.model>>
               /\ llm.provider = get_provider_from_model(llm.model)
               /\ llm.provider \in {"openai", "anthropic", "google"})
        /\ (lower(llm.name) \notin AliasKeys => llm.model = llm.name)

\* a provider object made from an alias written in upper case
C21_Witness ==
    /\ llm.state = "constructed"
    /\ llm.name = "GEMINI-1.5"
    /\ llm.model = "gemini/gemini-1.5-pro"
    /\ llm.provider = "google"

\* a line of the code text opens a call and never closes it
HasOpenCall(c) ==
    LET lines == split(c, "\n") IN \E i \in 1..Len(lines) : lines[i] = S_BAD

\* C22 as stated (SpecExec): in safe mode, for code that is not valid Python,
\* validate_code returns unsafe with a reason that reports the syntax error, and
\* execute() returns success = false and has run nothing.
C22_InvalidCodeReportsSyntaxError ==
    (Returned /\ safe_mode /\ HasOpenCall(ex_code)) =>
        /\ ~validate_code(safe_mode, ex_code).is_safe
        /\ Prefix(validate_code(safe_mode, ex_code).error, 14) = "Syntax error: "
        /\ ~exec_result.success
        /\ ran = <<>>

\* C22 amended (SpecExec): in safe mode, for code that is not valid Python,
\* validate_code returns unsafe and execute() returns success = false with no
\* output and the reason of validate_code in its stderr, and has run nothing;
\* the reason reports the syntax error with its line when the code holds no
\* deny-listed substring, and names a deny-listed substring of the code
\* otherwise, because the deny list is scanned before the code is compiled.
C22_InvalidCodeIsRefused ==
    (Returned /\ safe_mode /\ HasOpenCall(ex_code)) =>
        LET checked   == validate_code(safe_mode, ex_code)
            occurring == Occurring(ex_code)
        IN  /\ ~checked.is_safe
            /\ IF occurring = {}
               THEN /\ Prefix(checked.error, 14) = "Syntax error: "
                    /\ In("(<generated>, line ", checked.error)
               ELSE \E i \in occurring :
                       checked.error = "Forbidden pattern detected: " \o FORBIDDEN_PATTERNS[i]
            /\ exec_result = [success |-> FALSE, stdout |-> "",
                              stderr |-> "Code validation failed: " \o checked.error]
            /\ ran = <<>>
            /\ issued = <<>>

\* code whose second line is not valid Python has been refused
C22_Witness ==
    /\ Returned
    /\ safe_mode
    /\ ex_code = "print('a')\nprint("
    /\ exec_result.stderr
         = "Code validation failed: Syntax error: '(' was never closed (<generated>, line 2)"
    /\ ran = <<>>

\* C23 (SpecWindow): the message list built for the k+1-th request since
\* construction (k entries stored before it) is one system message, then the
\* last min(max_history, k) stored entries in the order of the requests, then
\* the prompt of the current request, last and once; and the stored history
\* still holds every request, the ones outside the window included.
C23_MessageListLayout ==
    messages # <<>> =>
        LET k      == Len(conversation_history) - 1
            window == Min(max_history, k)
        IN  /\ k = cycles - 1
            /\ Len(messages) = window + 2
            /\ messages[1].role = "system"
            /\ (pc = "AwaitingModel" =>
                   messages[1].content = build_system_prompt(memory_file, daily, today))
            /\ \A i \in 1..window :
                   messages[1 + i] = Message("user", NumberedText(k - window + i))
            /\ messages[window + 2] = Message("user", build_user_prompt(NumberedText(k + 1)))
            /\ \A i \in 1..(window + 1) :
                   messages[i].role # "system" \/ i = 1
            /\ \A i \in 1..(window + 1) : messages[i] # messages[window + 2]
            /\ \A j \in 1..(k + 1) :
                   conversation_history[j] = Message("user", NumberedText(j))

\* the list of the thirteenth request starts its window at the third request
C23_Witness ==
    /\ pc = "AwaitingModel"
    /\ Len(conversation_history) = 13
    /\ Len(messages) = 12
    /\ messages[2] = Message("user", "Request 3")
    /\ messages[11] = Message("user", "Request 12")

\* C24 as stated (SpecExec): whatever stopped the code, a fault of a statement
\* or the timeout, the stdout execute() returns with success = false holds all
\* the output the code had produced before it was stopped.
C24_FailureKeepsOutput ==
    (Returned /\ ~exec_result.success /\ ran # <<>>) =>
        exec_result.stdout = stdout_capture

\* the code is the single statement `import <module>`
IsImportOf(c, module) == c = "import " \o module

\* C25 as stated (Spec): in safe mode, code that imports a module of
\* ALLOWED_MODULES runs its import with success, and code that imports any
\* other module is refused.
C25_AllowedImportsSucceed ==
    (Returned /\ safe_mode) =>
        /\ \A module \in ALLOWED_MODULES :
              IsImportOf(ex_code, module) => exec_result.success /\ ex_fault = ""
        /\ (IsImportOf(ex_code, "os") => ~exec_result.success)

\* this step is the one in which _build_messages returns the list of a request
ContextBuilt == pc = "BuildingContext" /\ pc' = "AwaitingModel"

C27_NotExecutedMeansNoCommand ==
    (CycleEnded /\ ~response.code_executed) => issued = <<>>

\* no webhook call is being served
AllServed == \A w \in Workers : webhooks[w].pc = "idle"

\* C28 as stated (SpecChannel): the agents of two users share the workspace
\* and record their commands through append_today; however the reads and the
\* writes of the two calls interleave, once both have completed today's file
\* holds every entry that was recorded.
C28_EveryEntryIsPresent ==
    AllServed =>
        \A i \in 1..Len(written) : In(written[i].content, daily[today].text)

\* this step changes the conversation history of instance i
HistoryChanges(i) ==
    agents'[i].conversation_history # agents[i].conversation_history

\* the call of worker w acts on its agent in this step
Acts(w) == webhooks[w].pc = "HasAgent" /\ webhooks'[w].pc # "HasAgent"

\* C29 as stated (SpecChannel): a phone number that has an AgentLoop keeps
\* this instance for good, two numbers never have the same instance, and the
\* only history a request or a /clear changes is the one of its sender's
\* instance.
C29_SessionsAreIndependent ==
    [][ /\ \A u \in DOMAIN user_agents : user_agents'[u] = user_agents[u]
        /\ \A u, v \in DOMAIN user_agents' :
              u # v => user_agents'[u] # user_agents'[v]
        /\ \A i \in 1..Len(agents) :
              HistoryChanges(i) =>
                  \E w \in Workers :
                      /\ Acts(w)
                      /\ webhooks[w].agent = i
                      /\ \A v \in DOMAIN user_agents :
                            v # webhooks[w].From => user_agents[v] # i
      ]_vars

\* the entries of the log that calls of this sender recorded
RecordedBy(from_number) ==
    { i \in 1..Len(written) :
        \E m \in Incoming \cup Updates :
            /\ m[1] = from_number
            /\ written[i].content \in
                   { user_command_entry(body, RememberedResult(AdapterMode, PlugOutput)) :
                         body \in {m[2], strip(m[2])} } }

\* C30 as stated (SpecChannel): the message list built for a user's request
\* does not depend on what other users asked before.  For the first request
\* of a user who has recorded nothing, it is the list that is built when no
\* other user has made a request: the one built over the workspace as the
\* bot found it.
C30_PromptIgnoresOtherUsers ==
    \A w \in Workers :
        ( /\ webhooks[w].pc = "AwaitingModel"
          /\ RecordedBy(webhooks[w].From) = {}
          /\ agents[webhooks[w].agent].conversation_history =
                 << history_entry(webhooks[w].Body) >> )
        => webhooks[w].messages =
               build_messages(<<>>, webhooks[w].Body, memory_file,
                              [d \in Days |-> NoFile], today)

\* C31 (SpecExec): outside a running execute() call no alarm is pending:
\* whichever way the call returned (validation failure, success, fault or
\* timeout), the alarm it armed has been cleared or has gone off, so no
\* timeout signal is left to go off after the call or in a later one.
C31_NoAlarmPendingAfterReturn ==
    ex_pc # "running" => alarm = 0

\* a call that armed the alarm and ran code has returned, by a fault of the code
C31_Witness ==
    /\ Returned
    /\ hasSIGALRM
    /\ ran # <<>>
    /\ ex_fault # ""
    /\ alarm = 0

\* the text of a block without its language tag and surrounding whitespace
BlockContent(block) == IF IsTagged(block) THEN TaggedContent(block) ELSE strip(block)

\* C32 as stated (SpecExtract): for a model output without a complete fenced
\* block extract_code_from_response returns None; otherwise it returns the
\* stripped text between the two fences of one of the blocks, without the
\* language tag of the fence.
C32_ExtractsBlockContent ==
    (pc = "Extracted") =>
        LET blocks == Blocks(llm_response.val)
        IN  IF blocks = <<>>
            THEN code = None
            ELSE \E k \in DOMAIN blocks : code = Some(BlockContent(blocks[k]))

\* the last step was a chat() call with these overrides
ChatCalled(temperature, max_tokens) ==
    /\ llm.state = "constructed"
    /\ llm' = completion(llm, temperature, max_tokens)

\* C33 as stated (SpecGateway): a chat() call sends the temperature and the
\* max_tokens the caller supplied, whatever their value, zero included, and
\* the values the gateway was constructed with only where none was supplied.
C33_OverridesAreSent ==
    [][ \A temperature \in Temperatures, max_tokens \in TokenLimits :
            ChatCalled(temperature, max_tokens) =>
                /\ llm'.sent.temperature =
                       (IF IsNone(temperature) THEN Some(llm.temperature) ELSE temperature)
                /\ llm'.sent.max_tokens =
                       (IF IsNone(max_tokens) THEN Some(llm.max_tokens) ELSE max_tokens)
      ]_vars

\* device ids and actions handed to setValue: known and unknown ones
DeviceIds == {35, 99}

ActuatorActions == {"turnOn", "turnOff", "toggle"}

\* C34 as stated (SpecExec): the Sensors objects the executed code constructs
\* leave the module's mock data as it is, so after any number of execute()
\* calls the reading of each temperature sensor is within 0.5 of its base
\* value; and setValue with an unknown device or action reports no success.
C34_MockDataStaysAtBase ==
    /\ \A sid \in TempSensors :
          /\ MOCK_SENSORS[sid] - MockBase[sid] \in -5..5
          /\ (Returned /\ exec_result.success /\ ran = << S_SENSOR >>) =>
                 exec_result.stdout \in
                     {Fmt1f(t) \o "\n" : t \in (MockBase[sid] - 5)..(MockBase[sid] + 5)}
    /\ \A device_id \in DeviceIds, action \in ActuatorActions :
          (device_id \notin DOMAIN PLUG_STATES \/ action \notin {"turnOn", "turnOff"})
              => ~setValue_success(device_id, action)

\* the days of a set, the latest first
RECURSIVE NewestFirst(_)
NewestFirst(S) ==
    IF S = {} THEN <<>>
    ELSE LET latest == CHOOSE d \in S : \A e \in S : e <= d
         IN  <<latest>> \o NewestFirst(S \ {latest})

\* the values of the days argument the property is checked for
DaysArguments == 1..(MaxDay + 2)

\* C35 (SpecMemory): get_recent_memories(days) returns the texts of the logs
\* that exist among today and the days - 1 days before it, the most recent
\* first, with the separator between them; days without a log are skipped, and
\* the result is empty when none of these days has a log.
C35_RecentMemoriesNewestFirst ==
    \A days \in DaysArguments :
        LET have  == {d \in RecordedDays : d > today - days}
            order == NewestFirst(have)
            texts == [i \in 1..Len(order) |-> TextOf(daily[order[i]])]
        IN  /\ get_recent_memories(daily, today, days) = join("\n\n---\n\n", texts)
            /\ (have = {} => get_recent_memories(daily, today, days) = "")

\* today and the day before both have a log, and both are in the result
C35_Witness ==
    /\ today = 1
    /\ daily[0].exists
    /\ daily[1].exists
    /\ get_recent_memories(daily, today, 2) =
           TextOf(daily[1]) \o "\n\n---\n\n" \o TextOf(daily[0])
    /\ get_recent_memories(daily, today, 1) = TextOf(daily[1])

\* the bot has an allow-list and this sender is not on it
Unlisted(sender) == allowed # << >> /\ \A i \in 1..Len(allowed) : allowed[i] # sender

\* worker w takes or goes on with a call in this step
Serves(w) == webhooks'[w] # webhooks[w]

\* C36 (SpecChannel): in both adapters a message of a sender who is not on a
\* non-empty allow-list is answered without reaching process()/process_async():
\* the step that handles it builds no message list and leaves every
\* conversation history and every memory file as it was.  (The /clear command
\* of the Telegram adapter is not a message: it is handled for every sender,
\* and for one who is not listed it makes an agent with an empty history and
\* changes nothing that existed.)  With an empty allow-list the message of any
\* sender goes on to its agent.
C36_UnlistedSendersReachNothing ==
    [][ \A w \in Workers :
          /\ (Serves(w) /\ Unlisted(webhooks'[w].From)) =>
                /\ webhooks'[w].pc = "idle"
                /\ webhooks'[w].messages = << >>
                /\ \A i \in 1..Len(agents) : agents'[i] = agents[i]
                /\ UNCHANGED << daily, memory_file, written >>
                /\ ~(adapter = "telegram" /\ webhooks'[w].Body = "/clear") =>
                       /\ webhooks'[w].agent = 0
                       /\ agents' = agents
                       /\ user_agents' = user_agents
          /\ ( /\ allowed = << >>
               /\ webhooks'[w].served > webhooks[w].served
               /\ ~(adapter = "telegram" /\ webhooks'[w].Body = "/clear") ) =>
                webhooks'[w].pc # "idle"
      ]_vars

\* a listed sender's request is in its agent's history, and the message of a
\* sender who is not listed has been turned away
C36_Witness ==
    /\ allowed # << >>
    /\ \E a \in 1..Len(agents) : agents[a].conversation_history # << >>
    /\ \E w \in Workers :
          /\ Unlisted(webhooks[w].From)
          /\ webhooks[w].Body # "/clear"
          /\ webhooks[w].served = 1
          /\ webhooks[w].pc = "idle"

====
